---- MODULE Spec2Model ----
(***************************************************************************)
(* Model of the derived-state layer of src/server.py: the record_locks     *)
(* lease manager (check_lock_available / release_lock / get_all_locks),    *)
(* the goal and sales normalisation (normalize_goal, normalize_sales), the *)
(* goals document behind /api/goals, the yearly rollup                     *)
(* (build_monthly_progress, build_yearly_progress), the case numbers                              *)
(* (generate_case_number_for_date, reassign_case_numbers) and the          *)
(* customer handlers that use them, and the contract handlers next to the  *)
(* lease manager (api_update_contract, api_delete_contract).               *)
(*                                                                         *)
(* Time is counted in minutes.  Every SQL statement is one atomic step of  *)
(* the database; the Python code between two statements of one call can    *)
(* be interleaved with the statements of other sessions and with the       *)
(* passing of time.                                                        *)
(***************************************************************************)
EXTENDS Integers, Sequences, FiniteSets, TLC

\* ---------------------------------------------------------------- bounds
MaxTime == 3
MaxInt == 2
MaxPuts == 2
MaxExisting == 3
MaxContracts == 2

\* ------------------------------------------------------------- constants
LOCK_DURATION_MINUTES == 2

Sessions == {"s1", "s2"}
Users == {"alice", "bob"}
Keys == {<<"contract", "c1">>, <<"contract", "c2">>}
NoKey == <<"", "">>
NoArg == [key |-> NoKey, user |-> ""]

VARIABLES
    now,        \* the clock read by NOW() and datetime.utcnow()
    locks,      \* the rows of table record_locks
    pc,         \* per session: the statement its call in flight executes next
    arg,        \* per session: (key, user) of its current / last lock call
    tnow,       \* per session: the local `now` of check_lock_available
    resp,       \* what the step just taken returned to its caller (NoRet: nothing)
    outcome,    \* per session: how its last check_lock_available ended
    peers,      \* per session: sessions whose acquire of the same key overlapped
    clean       \* per session: its acquire started on a key without a row, and
                \* no row of the key was deleted while it ran

lockVars == <<now, locks, pc, arg, tnow, resp, outcome, peers, clean>>

VARIABLES
    gPhase,     \* "off", or how often normalize_goal has been applied to gIn
    gIn,        \* the payload handed to normalize_goal
    gOut,       \* normalize_goal(gIn)
    gOut2       \* normalize_goal(gOut)

goalVars == <<gPhase, gIn, gOut, gOut2>>

VARIABLES
    sPhase,     \* "off", "input" or "done": normalize_sales applied to sIn
    sIn,        \* the payload handed to normalize_sales
    sOut        \* normalize_sales(sIn)

salesVars == <<sPhase, sIn, sOut>>

VARIABLES
    dDoc,       \* the value of the app_settings row "goals" (Absent: no row)
    dPc,        \* per session: the statement its goals request executes next
    dReq,       \* per session: its request in flight, or its last overlapped save
    dLocal,     \* per session: the `data` / `goals` its load_goals_data holds
    dOver,      \* per session: another session's save was in flight during its request
    dDone,      \* per session: its last request was a save that completed while overlapped
    dResp,      \* what the step just taken answered (NoResp: nothing)
    dPuts       \* the number of goal saves started so far

docVars == <<dDoc, dPc, dReq, dLocal, dOver, dDone, dResp, dPuts>>

VARIABLES
    yPhase,     \* "off", "input" or "done": build_yearly_progress applied
    yProgress,  \* monthly_progress: month key -> counters
    yGoals,     \* goals: the loaded goals document
    yOut        \* build_yearly_progress(yProgress, yGoals): year -> entry

yearVars == <<yPhase, yProgress, yGoals, yOut>>

VARIABLES
    cPhase,     \* "off", "input" or "done": generate_case_number_for_date applied
    cIn,        \* its arguments: category, year, inquiry_date, existing_customers
    cOut        \* the case number returned, as its characters

caseVars == <<cPhase, cIn, cOut>>

VARIABLES
    kRecs,      \* the rows of table customers of one (category, year), by created_at
    kResp,      \* what the customer handler just run did (NoCustResp: nothing)
    kEdited     \* api_update_customer has changed a row of the partition

custVars == <<kRecs, kResp, kEdited>>

VARIABLES
    mPhase,     \* "off", "input" or "done": build_monthly_progress applied
    mContracts, \* what load_all_contracts returns
    mOut        \* build_monthly_progress(): month key -> counters

monthVars == <<mPhase, mContracts, mOut>>

VARIABLES
    tContracts, \* the rows of table contracts: id and updated_by
    tPc,        \* per session: the statement its contract request executes next
    tUser,      \* per session: the user of its contract request in flight
    tResp       \* what the contract handler step just taken answered

conVars == <<tContracts, tPc, tUser, tResp>>

vars == <<lockVars, goalVars, salesVars, docVars, yearVars, caseVars, custVars, monthVars,
          conVars>>

\* What a step of one component leaves alone: the other components.
FrameExcept(part) ==
    /\ IF part \in {"lock", "contract"} THEN TRUE ELSE UNCHANGED lockVars
    /\ IF part = "goal" THEN TRUE ELSE UNCHANGED goalVars
    /\ IF part = "sales" THEN TRUE ELSE UNCHANGED salesVars
    /\ IF part = "doc" THEN TRUE ELSE UNCHANGED docVars
    /\ IF part = "year" THEN TRUE ELSE UNCHANGED yearVars
    /\ IF part = "case" THEN TRUE ELSE UNCHANGED caseVars
    /\ IF part = "cust" THEN TRUE ELSE UNCHANGED custVars
    /\ IF part = "month" THEN TRUE ELSE UNCHANGED monthVars
    /\ IF part = "contract" THEN TRUE ELSE UNCHANGED conVars

\* ------------------------------------------------------------ record_locks
KeyOf(r) == <<r.resource_type, r.resource_id>>

RowsFor(rows, k) == {r \in rows : KeyOf(r) = k}

\* A lease is live iff expiresAt > now (spec section 3).
Live(rows, t) == {r \in rows : r.expires_at > t}

\* datetime.isoformat(): the text of a timestamp; None gives "".
NoText == << >>
IsoText(t) == <<"iso", t>>

format_datetime(dt) == IsoText(dt)

\* DELETE FROM record_locks WHERE expires_at < NOW()
\* A variant with the comparison reversed.
CleanupExpired_DeletesLive(rows, t) == {r \in rows : ~(r.expires_at > t)}

cleanup_expired_locks(rows, t) == {r \in rows : ~(r.expires_at < t)}

\* The uniqueness constraint of record_locks on (resource_type, resource_id):
\* the INSERT is rejected (psycopg2.IntegrityError) when a row of the key exists.
\* A variant: a table without the constraint.
UniqueViolation_Never(rows, k) == FALSE

UniqueViolation(rows, k) == RowsFor(rows, k) # {}

\* DELETE FROM record_locks WHERE resource_type = %s AND resource_id = %s
\* A variant whose WHERE clause lost the resource_id.
ReleaseLock_ByTypeOnly(rows, k) == {r \in rows : r.resource_type # k[1]}

release_lock(rows, k) == {r \in rows : ~(r.resource_type = k[1] /\ r.resource_id = k[2])}

NewRow(k, user, t) ==
    [resource_type |-> k[1], resource_id |-> k[2], locked_by |-> user,
     locked_at |-> t, expires_at |-> t + LOCK_DURATION_MINUTES]

\* ----------------------------------------------------------------- results
NoRet == [kind |-> "none", user |-> "", locked_at |-> NoText,
          expires_at |-> NoText, rows |-> {}]

\* return False, {"user": existing["locked_by"], "locked_at": ..., "expires_at": ...}
ConflictRet(existing) ==
    [kind |-> "conflict", user |-> existing.locked_by,
     locked_at |-> format_datetime(existing.locked_at),
     expires_at |-> format_datetime(existing.expires_at), rows |-> {}]

\* return True, {"user": user, "locked_at": now.isoformat(), "expires_at": ...}
GrantedRet(user, t) ==
    [kind |-> "granted", user |-> user, locked_at |-> IsoText(t),
     expires_at |-> IsoText(t + LOCK_DURATION_MINUTES), rows |-> {}]

\* except psycopg2.IntegrityError: return False, {"user": "unknown", "expires_at": ""}
\* A variant that lets the IntegrityError escape.
RejectedRet_Raises == [NoRet EXCEPT !.kind = "error"]

RejectedRet ==
    [kind |-> "conflict", user |-> "unknown", locked_at |-> NoText,
     expires_at |-> NoText, rows |-> {}]

ReleasedRet == [NoRet EXCEPT !.kind = "released"]

\* one element of the list get_all_locks returns
ListEntry(row) ==
    [contract_id |-> row.resource_id, resource_type |-> row.resource_type,
     user |-> row.locked_by, locked_at |-> format_datetime(row.locked_at),
     expires_at |-> format_datetime(row.expires_at)]

ListRet(rows) == [NoRet EXCEPT !.kind = "list", !.rows = {ListEntry(r) : r \in rows}]

AcqPcs == {"acq_clock", "acq_select", "acq_insert"}

InAcquire(s, k) == pc[s] \in AcqPcs /\ arg[s].key = k

\* ------------------------------------------------------------------- Init
InitLocks ==
    /\ now = 0
    /\ locks = {}
    /\ pc = [s \in Sessions |-> "idle"]
    /\ arg = [s \in Sessions |-> NoArg]
    /\ tnow = [s \in Sessions |-> 0]
    /\ resp = NoRet
    /\ outcome = [s \in Sessions |-> "none"]
    /\ peers = [s \in Sessions |-> {}]
    /\ clean = [s \in Sessions |-> FALSE]

\* History: a statement that deletes rows marks the acquires in flight on
\* the keys of the deleted rows.
MarkDeleted(rows2) ==
    [s \in Sessions |->
        clean[s] /\ ~(pc[s] \in AcqPcs /\ RowsFor(locks, arg[s].key) # RowsFor(rows2, arg[s].key))]

\* History kept when an acquire returns: the outcome is remembered only for
\* a call that raced with another one on a key that had no row.
Raced(s) == clean[s] /\ peers[s] # {}

Returned(s, kind) ==
    /\ pc' = [pc EXCEPT ![s] = "idle"]
    /\ tnow' = [tnow EXCEPT ![s] = 0]
    /\ outcome' = [outcome EXCEPT ![s] = IF Raced(s) THEN kind ELSE "none"]
    /\ arg' = [arg EXCEPT ![s] = IF Raced(s) THEN [arg[s] EXCEPT !.user = ""] ELSE NoArg]
    /\ peers' = [peers EXCEPT ![s] = IF Raced(s) THEN peers[s] ELSE {}]
    /\ clean' = [clean EXCEPT ![s] = Raced(s)]

\* History dropped when a session starts its next call.
Forget(s, rows2) ==
    /\ arg' = [arg EXCEPT ![s] = NoArg]
    /\ outcome' = [outcome EXCEPT ![s] = "none"]
    /\ peers' = [peers EXCEPT ![s] = {}]
    /\ clean' = [MarkDeleted(rows2) EXCEPT ![s] = FALSE]

\* ---------------------------------------------------------------- actions
\* time passes
Tick ==
    /\ now < MaxTime
    /\ now' = now + 1
    /\ resp' = NoRet
    /\ UNCHANGED <<locks, pc, arg, tnow, outcome, peers, clean>>

\* check_lock_available, line 868: cleanup_expired_locks()
AcqCleanup(s, k, u) ==
    /\ pc[s] = "idle"
    /\ locks' = cleanup_expired_locks(locks, now)
    /\ pc' = [pc EXCEPT ![s] = "acq_clock"]
    /\ arg' = [arg EXCEPT ![s] = [key |-> k, user |-> u]]
    /\ resp' = NoRet
    /\ outcome' = [outcome EXCEPT ![s] = "none"]
    /\ peers' = [t \in Sessions |->
                    IF t = s THEN {x \in Sessions \ {s} : InAcquire(x, k)}
                    ELSE IF InAcquire(t, k) THEN peers[t] \cup {s} ELSE peers[t]]
    /\ clean' = [MarkDeleted(locks') EXCEPT ![s] = (RowsFor(locks, k) = {})]
    /\ UNCHANGED <<now, tnow>>

\* check_lock_available, lines 869-870: now = datetime.utcnow()
AcqClock(s) ==
    /\ pc[s] = "acq_clock"
    /\ tnow' = [tnow EXCEPT ![s] = now]
    /\ pc' = [pc EXCEPT ![s] = "acq_select"]
    /\ resp' = NoRet
    /\ UNCHANGED <<now, locks, arg, outcome, peers, clean>>

\* A variant that extends the lease when its holder asks again.
AcqSelect_Renews(s) ==
    /\ pc[s] = "acq_select"
    /\ IF RowsFor(locks, arg[s].key) # {}
       THEN \E existing \in RowsFor(locks, arg[s].key) :
              /\ resp' = ConflictRet(existing)
              /\ Returned(s, "conflict")
              /\ locks' = IF existing.locked_by = arg[s].user
                          THEN (locks \ {existing}) \cup
                               {[existing EXCEPT !.expires_at = tnow[s] + LOCK_DURATION_MINUTES]}
                          ELSE locks
       ELSE /\ pc' = [pc EXCEPT ![s] = "acq_insert"]
            /\ resp' = NoRet
            /\ UNCHANGED <<locks, arg, tnow, outcome, peers, clean>>
    /\ UNCHANGED now

\* check_lock_available, lines 875-886: SELECT the key's row; a row is a conflict
AcqSelect(s) ==
    /\ pc[s] = "acq_select"
    /\ IF RowsFor(locks, arg[s].key) # {}
       THEN \E existing \in RowsFor(locks, arg[s].key) :
              /\ resp' = ConflictRet(existing)
              /\ Returned(s, "conflict")
       ELSE /\ pc' = [pc EXCEPT ![s] = "acq_insert"]
            /\ resp' = NoRet
            /\ UNCHANGED <<arg, tnow, outcome, peers, clean>>
    /\ UNCHANGED <<now, locks>>

\* check_lock_available, lines 889-905: INSERT, commit; IntegrityError is a conflict
AcqInsert(s) ==
    /\ pc[s] = "acq_insert"
    /\ IF UniqueViolation(locks, arg[s].key)
       THEN /\ resp' = RejectedRet
            /\ Returned(s, RejectedRet.kind)
            /\ UNCHANGED locks
       ELSE /\ locks' = locks \cup {NewRow(arg[s].key, arg[s].user, tnow[s])}
            /\ resp' = GrantedRet(arg[s].user, tnow[s])
            /\ Returned(s, "granted")
    /\ UNCHANGED now

\* release_lock(resource_type, resource_id)
Release(s, k) ==
    /\ pc[s] = "idle"
    /\ locks' = release_lock(locks, k)
    /\ resp' = ReleasedRet
    /\ Forget(s, locks')
    /\ UNCHANGED <<now, pc, tnow>>

\* get_all_locks, line 921: cleanup_expired_locks()
ListCleanup(s) ==
    /\ pc[s] = "idle"
    /\ locks' = cleanup_expired_locks(locks, now)
    /\ pc' = [pc EXCEPT ![s] = "list_select"]
    /\ resp' = NoRet
    /\ Forget(s, locks')
    /\ UNCHANGED <<now, tnow>>

\* get_all_locks, lines 922-935: SELECT * FROM record_locks
ListSelect(s) ==
    /\ pc[s] = "list_select"
    /\ resp' = ListRet(locks)
    /\ pc' = [pc EXCEPT ![s] = "idle"]
    /\ UNCHANGED <<now, locks, arg, tnow, outcome, peers, clean>>

NextLocks ==
    \/ Tick /\ FrameExcept("lock")
    \/ (\E s \in Sessions, k \in Keys, u \in Users : AcqCleanup(s, k, u)) /\ FrameExcept("lock")
    \/ (\E s \in Sessions : AcqClock(s)) /\ FrameExcept("lock")
    \/ (\E s \in Sessions : AcqSelect(s)) /\ FrameExcept("lock")
    \/ (\E s \in Sessions : AcqInsert(s)) /\ FrameExcept("lock")
    \/ (\E s \in Sessions, k \in Keys : Release(s, k)) /\ FrameExcept("lock")
    \/ (\E s \in Sessions : ListCleanup(s)) /\ FrameExcept("lock")
    \/ (\E s \in Sessions : ListSelect(s)) /\ FrameExcept("lock")


\* ===================================================== goal normalisation
\* JSON / Python values, tagged with their type.  A dict is a function from
\* its keys to values; a float is counted in tenths, with inf and nan apart.
PyNone == [t |-> "none"]
PyBool(b) == [t |-> "bool", b |-> b]
PyInt(i) == [t |-> "int", i |-> i]
PyFloat(x) == [t |-> "float", x |-> x]
PyInf == [t |-> "inf"]
PyNaN == [t |-> "nan"]
PyStr(str) == [t |-> "str", s |-> str]
PyList(l) == [t |-> "list", l |-> l]
PyDict(d) == [t |-> "dict", d |-> d]
Raise(e) == [t |-> "raise", e |-> e]
Absent == [t |-> "absent"]

\* bool(v): what `v or default` tests
Truthy(v) ==
    CASE v.t = "none" -> FALSE
      [] v.t = "bool" -> v.b
      [] v.t = "int" -> v.i # 0
      [] v.t = "float" -> v.x # 0
      [] v.t = "str" -> v.s # ""
      [] v.t = "list" -> v.l # << >>
      [] v.t = "dict" -> DOMAIN v.d # {}
      [] OTHER -> TRUE

PyOr(v, w) == IF Truthy(v) THEN v ELSE w

\* str.strip() on the strings of the model
Strip(str) ==
    CASE str = " " -> ""
      [] str = " a " -> "a"
      [] str = " 7 " -> "7"
      [] OTHER -> str

\* iterating a str yields its characters
Chars(str) ==
    CASE str = "" -> << >>
      [] str = " a " -> <<" ", "a", " ">>
      [] str = "ab" -> <<"a", "b">>
      [] str = " 7 " -> <<" ", "7", " ">>
      [] str = "-3" -> <<"-", "3">>
      [] str = "3.7" -> <<"3", ".", "7">>
      [] OTHER -> <<str>>

\* int(str): an optionally signed decimal literal, surrounding blanks allowed
IntLiterals == {"5", " 7 ", "7", "-3", "3"}

ParseInt(str) ==
    CASE str = "5" -> 5
      [] str = " 7 " -> 7
      [] str = "7" -> 7
      [] str = "-3" -> 0 - 3
      [] str = "3" -> 3
      [] OTHER -> 0

\* int(float) truncates toward zero
Trunc(x) == IF x >= 0 THEN x \div 10 ELSE 0 - ((0 - x) \div 10)

\* int(v): e = "" when it returns i, else the exception it raises
IntOk(i) == [e |-> "", i |-> i]
IntErr(e) == [e |-> e, i |-> 0]

IntOf(v) ==
    CASE v.t = "bool" -> IntOk(IF v.b THEN 1 ELSE 0)
      [] v.t = "int" -> IntOk(v.i)
      [] v.t = "float" -> IntOk(Trunc(v.x))
      [] v.t = "inf" -> IntErr("OverflowError")
      [] v.t = "nan" -> IntErr("ValueError")
      [] v.t = "str" -> IF v.s \in IntLiterals THEN IntOk(ParseInt(v.s)) ELSE IntErr("ValueError")
      [] OTHER -> IntErr("TypeError")

Max0(i) == IF i > 0 THEN i ELSE 0

Caught == {"TypeError", "ValueError"}

\* lines 271-273: the defaults, updated with the payload when it is a dict
GoalDefaults ==
    [k \in {"storeTarget", "staffTargets", "includeStaff"} |->
        CASE k = "storeTarget" -> PyInt(0)
          [] k = "staffTargets" -> PyDict(<< >>)
          [] OTHER -> PyList(<< >>)]

GoalUpdated(goal) ==
    IF goal.t = "dict"
    THEN [k \in DOMAIN GoalDefaults \cup DOMAIN goal.d |->
            IF k \in DOMAIN goal.d THEN goal.d[k] ELSE GoalDefaults[k]]
    ELSE GoalDefaults

\* lines 275-278: max(0, int(storeTarget or 0)), 0 on TypeError / ValueError
StoreTargetOf(v) ==
    LET n == IntOf(PyOr(v, PyInt(0)))
    IN IF n.e = "" THEN PyInt(Max0(n.i))
       ELSE IF n.e \in Caught THEN PyInt(0)
       ELSE Raise(n.e)

\* A variant that drops the entries whose int() is negative.
StaffTargetsOf_DropsNegative(v) ==
    LET st == PyOr(v, PyDict(<< >>))
    IN IF st.t # "dict" THEN Raise("AttributeError")
       ELSE IF \E name \in DOMAIN st.d : IntOf(st.d[name]).e \notin Caught \cup {""}
            THEN Raise("OverflowError")
       ELSE LET kept == {name \in DOMAIN st.d :
                            IntOf(st.d[name]).e = "" /\ IntOf(st.d[name]).i >= 0}
            IN PyDict([name \in kept |-> PyInt(IntOf(st.d[name]).i)])

\* lines 280-286: (staffTargets or {}).items(), entries whose int() fails dropped
StaffTargetsOf(v) ==
    LET st == PyOr(v, PyDict(<< >>))
    IN IF st.t # "dict" THEN Raise("AttributeError")
       ELSE IF \E name \in DOMAIN st.d : IntOf(st.d[name]).e \notin Caught \cup {""}
            THEN Raise("OverflowError")
       ELSE LET kept == {name \in DOMAIN st.d : IntOf(st.d[name]).e = ""}
            IN PyDict([name \in kept |-> PyInt(Max0(IntOf(st.d[name]).i))])

\* the order in which a dict is iterated (the payloads here have one key at most)
KeysInOrder(d) ==
    CHOOSE q \in [1..Cardinality(DOMAIN d) -> DOMAIN d] :
        \A k \in DOMAIN d : \E i \in DOMAIN q : q[i] = k

\* what `for name in v` yields; a number or a bool is not iterable
Iterate(v) ==
    CASE v.t = "list" -> v.l
      [] v.t = "str" -> [i \in DOMAIN Chars(v.s) |-> PyStr(Chars(v.s)[i])]
      [] v.t = "dict" -> [i \in DOMAIN KeysInOrder(v.d) |-> PyStr(KeysInOrder(v.d)[i])]
      [] OTHER -> << >>

Iterable(v) == v.t \in {"list", "str", "dict"}

\* A variant that appends both the name and its stripped form.
RECURSIVE StripKept_AppendsBoth(_)
StripKept_AppendsBoth(items) ==
    IF items = << >> THEN << >>
    ELSE LET name == Head(items)
         IN (IF name.t = "str" /\ Strip(name.s) # ""
             THEN <<name, PyStr(Strip(name.s))>> ELSE << >>)
            \o StripKept_AppendsBoth(Tail(items))

\* lines 289-291: keep name.strip() of every str whose strip() is not empty
RECURSIVE StripKept(_)
StripKept(items) ==
    IF items = << >> THEN << >>
    ELSE LET name == Head(items)
         IN (IF name.t = "str" /\ Strip(name.s) # ""
             THEN <<PyStr(Strip(name.s))>> ELSE << >>) \o StripKept(Tail(items))

\* lines 288-292: the non-blank strings of includeStaff, stripped
IncludeStaffOf(v) ==
    LET inc == PyOr(v, PyList(<< >>))
    IN IF Iterable(inc) THEN PyList(StripKept(Iterate(inc))) ELSE Raise("TypeError")

\* lines 270-294
normalize_goal(goal) ==
    LET normalized == GoalUpdated(goal)
        store == StoreTargetOf(normalized["storeTarget"])
        staff == StaffTargetsOf(normalized["staffTargets"])
        include == IncludeStaffOf(normalized["includeStaff"])
    IN IF store.t = "raise" THEN store
       ELSE IF staff.t = "raise" THEN staff
       ELSE IF include.t = "raise" THEN include
       ELSE PyDict([k \in DOMAIN normalized |->
                      CASE k = "storeTarget" -> store
                        [] k = "staffTargets" -> staff
                        [] k = "includeStaff" -> include
                        [] OTHER -> normalized[k]])

\* ------------------------------------------------------ payloads explored
IntValues == (0 - 1)..MaxInt

ScalarValues ==
    {PyNone, PyBool(TRUE), PyFloat(37), PyFloat(0 - 25), PyInf, PyNaN,
     PyStr("5"), PyStr(" 7 "), PyStr("-3"), PyStr("3.7"), PyStr("a"), PyStr("")}
    \cup {PyInt(i) : i \in IntValues}

StoreChoices ==
    {Absent, PyList(<< >>), PyList(<<PyInt(1)>>), PyDict(<< >>)} \cup ScalarValues

TargetValues ==
    {PyNone, PyBool(TRUE), PyFloat(37), PyInf, PyStr("5"), PyStr("-3"), PyStr("a")}
    \cup {PyInt(i) : i \in IntValues}

StaffChoices ==
    {Absent, PyNone, PyDict(<< >>), PyList(<< >>), PyList(<<PyInt(1)>>),
     PyStr("a"), PyInt(5), PyInt(0)}
    \cup {PyDict([n \in {"A"} |-> v]) : v \in TargetValues}
    \cup {PyDict([n \in {"A", "B"} |-> IF n = "A" THEN v ELSE PyInt(1)]) :
            v \in {PyInt(2), PyStr("a")}}

IncludeChoices ==
    {Absent, PyNone, PyList(<< >>), PyList(<<PyStr("a")>>),
     PyList(<<PyStr(" a "), PyStr("b")>>), PyList(<<PyStr(" "), PyStr("a")>>),
     PyList(<<PyStr("a"), PyStr("a")>>), PyList(<<PyInt(1), PyStr("a")>>),
     PyStr("ab"), PyStr(" a "), PyStr(""), PyInt(5), PyInt(0),
     PyDict([n \in {" a "} |-> PyInt(1)]), PyBool(TRUE)}

NoteChoices == {Absent, PyStr("a")}

MkGoal(store, staff, include, note) ==
    LET all == [storeTarget |-> store, staffTargets |-> staff,
                includeStaff |-> include, note |-> note]
        dom == {k \in DOMAIN all : all[k] # Absent}
    IN PyDict([k \in dom |-> all[k]])

GoalInputs ==
    {PyNone, PyInt(5), PyStr("a"), PyList(<< >>)}
    \cup {MkGoal(a, b, c, n) : a \in StoreChoices, b \in StaffChoices,
                               c \in IncludeChoices, n \in NoteChoices}

GoalOff == gPhase = "off" /\ gIn = PyNone /\ gOut = PyNone /\ gOut2 = PyNone

SalesOff == sPhase = "off" /\ sIn = PyNone /\ sOut = PyNone

NoReq == [kind |-> "none", key |-> "", year |-> "", body |-> PyNone, bad |-> FALSE]
NoResp == [op |-> "none"]

DocOff ==
    /\ dDoc = Absent
    /\ dPc = [s \in Sessions |-> "off"]
    /\ dReq = [s \in Sessions |-> NoReq]
    /\ dLocal = [s \in Sessions |-> Absent]
    /\ dOver = [s \in Sessions |-> FALSE]
    /\ dDone = [s \in Sessions |-> FALSE]
    /\ dResp = NoResp
    /\ dPuts = 0

YearOff == yPhase = "off" /\ yProgress = << >> /\ yGoals = PyNone /\ yOut = << >>

CaseOff == cPhase = "off" /\ cIn = << >> /\ cOut = << >>

NoCustResp == [op |-> "none", rewritten |-> 0]

CustOff == kRecs = << >> /\ kResp = NoCustResp /\ kEdited = FALSE

MonthOff == mPhase = "off" /\ mContracts = << >> /\ mOut = << >>

NoConResp == [op |-> "none", status |-> 0, user |-> ""]

ContractOff ==
    /\ tContracts = {}
    /\ tPc = [s \in Sessions |-> "off"]
    /\ tUser = [s \in Sessions |-> ""]
    /\ tResp = NoConResp

\* The components a specification does not exercise rest in their initial state.
OffExcept(part) ==
    /\ part = "lock" \/ InitLocks
    /\ part = "goal" \/ GoalOff
    /\ part = "sales" \/ SalesOff
    /\ part = "doc" \/ DocOff
    /\ part = "year" \/ YearOff
    /\ part = "case" \/ CaseOff
    /\ part = "cust" \/ CustOff
    /\ part = "month" \/ MonthOff
    /\ part = "contract" \/ ContractOff

InitGoal ==
    /\ OffExcept("goal")
    /\ gPhase = "input"
    /\ gIn \in GoalInputs
    /\ gOut = PyNone
    /\ gOut2 = PyNone

\* normalize_goal applied to the payload
GoalNormalize ==
    /\ gPhase = "input"
    /\ gOut' = normalize_goal(gIn)
    /\ gPhase' = "once"
    /\ UNCHANGED <<gIn, gOut2>>

\* normalize_goal applied to its own result
GoalNormalizeAgain ==
    /\ gPhase = "once"
    /\ gOut.t # "raise"
    /\ gOut2' = normalize_goal(gOut)
    /\ gPhase' = "twice"
    /\ UNCHANGED <<gIn, gOut>>

NextGoal ==
    \/ GoalNormalize /\ FrameExcept("goal")
    \/ GoalNormalizeAgain /\ FrameExcept("goal")

\* ==================================================== sales normalisation
\* float(v): e = "" when it returns v (a float in tenths, inf or nan)
FloatOk(v) == [e |-> "", v |-> v]
FloatErr(e) == [e |-> e, v |-> PyNaN]

\* float(str): a decimal literal, surrounding blanks allowed
FloatLiterals == {"5", " 7 ", "7", "-3", "3", "3.7"}
NanLiterals == {"nan", "NaN"}

ParseTenths(str) == IF str = "3.7" THEN 37 ELSE 10 * ParseInt(str)

FloatOf(v) ==
    CASE v.t = "bool" -> FloatOk(PyFloat(IF v.b THEN 10 ELSE 0))
      [] v.t = "int" -> FloatOk(PyFloat(10 * v.i))
      [] v.t = "float" -> FloatOk(v)
      [] v.t = "inf" -> FloatOk(v)
      [] v.t = "nan" -> FloatOk(v)
      [] v.t = "str" -> IF v.s \in FloatLiterals THEN FloatOk(PyFloat(ParseTenths(v.s)))
                        ELSE IF v.s \in NanLiterals THEN FloatOk(PyNaN)
                        ELSE FloatErr("ValueError")
      [] OTHER -> FloatErr("TypeError")

\* max(0, x): x when x > 0 (false for nan), else 0
MaxZero(v) ==
    CASE v.t = "inf" -> v
      [] v.t = "float" -> IF v.x > 0 THEN v ELSE PyFloat(0)
      [] OTHER -> PyFloat(0)

\* x < 0 and x == 0 on floats (both false for nan and inf)
IsNegative(v) == v.t = "float" /\ v.x < 0
IsZero(v) == v.t = "float" /\ v.x = 0

\* sum(staff.values()) of non-negative floats
RECURSIVE SumTenths(_, _)
SumTenths(d, names) ==
    IF names = {} THEN 0
    ELSE LET n == CHOOSE x \in names : TRUE
         IN (IF d[n].t = "float" THEN d[n].x ELSE 0) + SumTenths(d, names \ {n})

SumValues(d) ==
    IF \E n \in DOMAIN d : d[n].t = "inf" THEN PyInf
    ELSE PyFloat(SumTenths(d, DOMAIN d))

\* lines 334-340: the staff entries float() accepts, clamped at 0
SalesStaffOf(v) ==
    LET st == PyOr(v, PyDict(<< >>))
    IN IF st.t # "dict" THEN Raise("AttributeError")
       ELSE LET kept == {name \in DOMAIN st.d : FloatOf(st.d[name]).e = ""}
            IN PyDict([name \in kept |-> MaxZero(FloatOf(st.d[name]).v)])

\* lines 341-350: float(store) clamped at 0, or the staff sum when float()
\* fails or the store is 0 beside a non-empty staff
SalesStoreOf(v, staff) ==
    LET f == FloatOf(v)
        first == IF f.e = "" THEN (IF IsNegative(f.v) THEN PyFloat(0) ELSE f.v)
                 ELSE SumValues(staff)
    IN IF IsZero(first) /\ DOMAIN staff # {} THEN SumValues(staff) ELSE first

\* rec.get(key): None when the key is missing
DictGet(d, k) == IF k \in DOMAIN d THEN d[k] ELSE PyNone

\* lines 330-351
normalize_sales(rec) ==
    IF rec.t # "dict" THEN PyDict([store |-> PyFloat(0), staff |-> PyDict(<< >>)])
    ELSE LET staff == SalesStaffOf(DictGet(rec.d, "staff"))
         IN IF staff.t = "raise" THEN staff
            ELSE PyDict([store |-> SalesStoreOf(DictGet(rec.d, "store"), staff.d),
                         staff |-> staff])

SalesValues ==
    {PyNone, PyBool(TRUE), PyFloat(37), PyFloat(0 - 25), PyInf, PyNaN,
     PyStr("5"), PyStr("-3"), PyStr("3.7"), PyStr("nan"), PyStr("a"), PyStr(""), PyList(<< >>)}
    \cup {PyInt(i) : i \in IntValues}

SalesStaffChoices ==
    {Absent, PyNone, PyDict(<< >>), PyList(<<PyInt(1)>>)}
    \cup {PyDict([n \in {"A"} |-> v]) : v \in SalesValues}
    \cup {PyDict([n \in {"A", "B"} |-> IF n = "A" THEN v ELSE PyInt(1)]) : v \in SalesValues}

MkSales(store, staff) ==
    LET all == [store |-> store, staff |-> staff]
        dom == {k \in DOMAIN all : all[k] # Absent}
    IN PyDict([k \in dom |-> all[k]])

SalesInputs ==
    {PyNone, PyInt(5)}
    \cup {MkSales(a, b) : a \in {Absent} \cup SalesValues, b \in SalesStaffChoices}

InitSales ==
    /\ OffExcept("sales")
    /\ sPhase = "input"
    /\ sIn \in SalesInputs
    /\ sOut = PyNone

\* normalize_sales applied to the payload
SalesNormalize ==
    /\ sPhase = "input"
    /\ sOut' = normalize_sales(sIn)
    /\ sPhase' = "done"
    /\ UNCHANGED sIn

NextSales == SalesNormalize /\ FrameExcept("sales")

SpecSales == InitSales /\ [][NextSales]_vars

\* ======================================================== goals document
Months == {"2025-04", "2025-05"}
Years == {"2025"}

\* current_month_key(), lines 33-35
CurrentMonth == "2025-05"

\* re.match(r"^\d{4}-\d{2}$", ...) and re.match(r"^\d{4}$", ...) on the strings
\* of the model
MonthShaped(str) == str \in Months
YearShaped(str) == str \in {"2024", "2025"}

\* month_key.split("-", 1)[0]
YearOfMonth(m) == IF m \in {"2025-04", "2025-05"} THEN "2025" ELSE "2024"

\* "-" in key
HasDash(str) == str \in {"2024-12", "2025-04", "2025-05", "2025-5"}

\* line 30
DEFAULT_GOAL == PyDict(GoalDefaults)

\* d[k] = v on a dict
SetItem(d, k, v) == [x \in DOMAIN d \cup {k} |-> IF x = k THEN v ELSE d[x]]

\* lines 385-392
normalize_month_key(month_key) ==
    IF ~Truthy(month_key) THEN PyStr(CurrentMonth)
    ELSE IF month_key.t # "str" THEN PyNone
    ELSE IF MonthShaped(month_key.s) THEN month_key
    ELSE PyNone

\* lines 200-204 with 136-144: the row, or the default document when there is none
DefaultDocument ==
    PyDict([default |-> DEFAULT_GOAL,
            monthly |-> PyDict([m \in {CurrentMonth} |-> DEFAULT_GOAL]),
            annual |-> PyDict(<< >>)])

LoadedData(row) ==
    LET data == IF row = Absent THEN DefaultDocument ELSE row
    IN IF data.t = "dict" THEN data ELSE PyDict(<< >>)

\* line 209: data.get("monthly") is None
IsLegacy(data) == DictGet(data.d, "monthly") = PyNone

\* lines 210-212: the flat legacy goal wrapped into a document
MigratedDocument(data) ==
    LET legacy_goal == normalize_goal(data)
    IN PyDict([default |-> legacy_goal,
               monthly |-> PyDict([m \in {CurrentMonth} |-> legacy_goal]),
               annual |-> PyDict(<< >>)])

NormalizedEntries(v) ==
    IF v.t = "dict" THEN PyDict([k \in DOMAIN v.d |-> normalize_goal(v.d[k])])
    ELSE PyDict(<< >>)

\* lines 216-228: every goal of the document normalised
NormalizedDocument(data) ==
    PyDict([default |-> normalize_goal(PyOr(DictGet(data.d, "default"), DEFAULT_GOAL)),
            monthly |-> NormalizedEntries(DictGet(data.d, "monthly")),
            annual |-> NormalizedEntries(PyOr(DictGet(data.d, "annual"), PyDict(<< >>)))])

\* d.get(key, default)
GetOr(d, k, default) == IF k \in DOMAIN d THEN d[k] ELSE default

\* goals.get(key, {})
GetOrEmpty(d, k) == IF k \in DOMAIN d THEN d[k] ELSE PyDict(<< >>)

\* A variant that treats a stored goal without a store target as missing.
get_goal_for_month_ByTarget(month_key, goals) ==
    LET found == DictGet(GetOrEmpty(goals.d, "monthly").d, month_key)
    IN IF found # PyNone /\ Truthy(found.d["storeTarget"]) THEN found
       ELSE PyOr(DictGet(goals.d, "default"), DEFAULT_GOAL)

\* lines 297-299
get_goal_for_month(month_key, goals) ==
    PyOr(PyOr(DictGet(GetOrEmpty(goals.d, "monthly").d, month_key),
              DictGet(goals.d, "default")),
         DEFAULT_GOAL)

\* A variant that treats a stored annual goal without a store target as missing.
get_goal_for_year_ByTarget(year_key, goals, fallback_to_default) ==
    LET found == DictGet(GetOrEmpty(goals.d, "annual").d, year_key)
    IN IF found # PyNone /\ Truthy(found.d["storeTarget"]) THEN found
       ELSE IF fallback_to_default THEN PyOr(DictGet(goals.d, "default"), DEFAULT_GOAL)
       ELSE PyNone

\* lines 310-317
get_goal_for_year(year_key, goals, fallback_to_default) ==
    LET found == DictGet(GetOrEmpty(goals.d, "annual").d, year_key)
    IN IF Truthy(found) THEN found
       ELSE IF fallback_to_default THEN PyOr(DictGet(goals.d, "default"), DEFAULT_GOAL)
       ELSE PyNone

\* sum(d.values()) of ints
RECURSIVE SumInts(_, _)
SumInts(d, names) ==
    IF names = {} THEN 0
    ELSE LET n == CHOOSE x \in names : TRUE
         IN d[n].i + SumInts(d, names \ {n})

\* A variant that keeps the caller's storeTarget.
AnnualGoalOf_KeepsStore(goal_body) == normalize_goal(goal_body)

\* lines 323-324: the normalised goal with storeTarget = sum of its staffTargets
AnnualGoalOf(goal_body) ==
    LET normalized == normalize_goal(goal_body)
    IN IF normalized.t = "raise" THEN normalized
       ELSE LET staff == GetOrEmpty(normalized.d, "staffTargets").d
            IN PyDict(SetItem(normalized.d, "storeTarget",
                              PyInt(SumInts(staff, DOMAIN staff))))

\* goals[section][key] = goal
WithEntry(goals, section, key, goal) ==
    PyDict(SetItem(goals.d, section, PyDict(SetItem(goals.d[section].d, key, goal))))

\* ---- requests on the goals document
Saves == {"put_month", "put_year"}

\* A flat goal stored by a version that kept one goal, and no row at all.
LegacyRow ==
    PyDict([storeTarget |-> PyInt(2),
            staffTargets |-> PyDict([n \in {"A"} |-> PyInt(2)]),
            includeStaff |-> PyList(<< >>)])

InitialRows == {Absent, LegacyRow}

\* lines 1607-1611: goal_body
GoalBody(store, staff, include) ==
    PyDict([storeTarget |-> store, staffTargets |-> staff, includeStaff |-> include])

GoalBodies ==
    {GoalBody(PyNone, PyNone, PyNone),
     GoalBody(PyInt(1), PyDict([n \in {"A", "B"} |-> IF n = "A" THEN PyInt(3) ELSE PyInt(5)]),
              PyNone),
     GoalBody(PyInt(1), PyList(<<PyInt(1)>>), PyNone)}

QueryMonths == {PyNone, PyStr("2025-04")}
QueryYears == {PyNone}
BodyMonths == {PyNone, PyStr("2025-04"), PyStr("2025-05"), PyStr("2025-5")}
BodyYears == {PyStr("2025"), PyStr("20x5")}

\* (query month, body month, body year) of the PUT requests explored
PutRequests ==
    {<<q, m, PyNone>> : q \in QueryMonths, m \in {PyNone, PyStr("2025-5")}}
    \cup {<<PyNone, m, PyNone>> : m \in BodyMonths}
    \cup {<<PyNone, PyNone, y>> : y \in BodyYears}
    \cup {<<PyNone, PyStr("2025-04"), PyStr("2025")>>}
LookupYears == {"2024", "2025"}

InFlight(s) == dPc[s] # "idle"

Response(req, status, goals, goal, annualGoal) ==
    [op |-> req.kind, status |-> status, req |-> req, goals |-> goals,
     goal |-> goal, annualGoal |-> annualGoal]

\* lines 1592-1594 and 1715, 1101: what a read answers from the loaded goals
ReadResponse(req, goals) ==
    IF req.kind = "get"
    THEN Response(req, 200, goals, get_goal_for_month(req.key, goals),
                  get_goal_for_year(req.year, goals, TRUE))
    ELSE Response(req, 200, goals, PyNone, get_goal_for_year(req.year, goals, FALSE))

\* The SELECT of load_goals_data (line 140) for a request that passed its
\* checks: a legacy row is migrated by a second statement.
Begin(s, req) ==
    LET data == LoadedData(dDoc)
        save == req.kind \in Saves
        racing == {t \in Sessions \ {s} : InFlight(t) /\ dReq[t].kind \in Saves}
    IN /\ dDone' = [t \in Sessions |-> FALSE]
       /\ dPuts' = IF save THEN dPuts + 1 ELSE dPuts
       /\ IF IsLegacy(data)
          THEN /\ dPc' = [dPc EXCEPT ![s] = "migrate"]
               /\ dLocal' = [dLocal EXCEPT ![s] = data]
               /\ dResp' = NoResp
          ELSE IF save
          THEN /\ dPc' = [dPc EXCEPT ![s] = "loaded"]
               /\ dLocal' = [dLocal EXCEPT ![s] = NormalizedDocument(data)]
               /\ dResp' = NoResp
          ELSE /\ dResp' = ReadResponse(req, NormalizedDocument(data))
               /\ UNCHANGED <<dPc, dLocal>>
       /\ dReq' = [t \in Sessions |->
                     IF t = s THEN (IF save \/ IsLegacy(data) THEN req ELSE NoReq)
                     ELSE IF InFlight(t) THEN dReq[t] ELSE NoReq]
       /\ dOver' = [t \in Sessions |->
                     IF t = s THEN save /\ racing # {}
                     ELSE dOver[t] \/ (save /\ t \in racing)]
       /\ UNCHANGED dDoc

Reject(req) ==
    /\ dResp' = Response(req, 400, PyNone, PyNone, PyNone)
    /\ UNCHANGED <<dDoc, dPc, dReq, dLocal, dOver, dDone, dPuts>>

\* api_goals PUT, lines 1606-1632, up to the SELECT of its load_goals_data
DocPut(s, q, m, y, goal_body) ==
    /\ dPc[s] = "idle"
    /\ dPuts < MaxPuts
    /\ LET query_month == normalize_month_key(q)
           month_key == PyOr(PyOr(normalize_month_key(m), query_month), PyStr(CurrentMonth))
           bad == m # PyNone /\ ~(m.t = "str" /\ MonthShaped(m.s))
       IN IF Truthy(y) /\ ~Truthy(m)
          THEN IF YearShaped(y.s)
               THEN Begin(s, [kind |-> "put_year", key |-> y.s, year |-> y.s,
                              body |-> goal_body, bad |-> FALSE])
               ELSE Reject([kind |-> "put_year", key |-> y.s, year |-> y.s,
                            body |-> goal_body, bad |-> FALSE])
          ELSE IF Truthy(month_key)
               THEN Begin(s, [kind |-> "put_month", key |-> month_key.s, year |-> "",
                              body |-> goal_body, bad |-> bad])
               ELSE Reject([kind |-> "put_month", key |-> "", year |-> "",
                            body |-> goal_body, bad |-> bad])

\* api_goals GET, lines 1580-1603
DocGet(s, q, y) ==
    /\ dPc[s] = "idle"
    /\ LET month_key == PyOr(normalize_month_key(q), PyStr(CurrentMonth))
           year_key == IF y # PyNone /\ YearShaped(y.s) THEN y ELSE PyNone
       IN Begin(s, [kind |-> "get", key |-> month_key.s,
                    year |-> PyOr(year_key, PyStr(YearOfMonth(month_key.s))).s,
                    body |-> PyNone, bad |-> FALSE])

\* api_goal_progress, lines 1715 and 1730 with 1100-1103: the annual goal of a year
DocProgress(s, year) ==
    /\ dPc[s] = "idle"
    /\ Begin(s, [kind |-> "progress", key |-> "", year |-> year,
                 body |-> PyNone, bad |-> FALSE])

\* lines 210-213: save_app_setting of the migrated document
DocMigrate(s) ==
    /\ dPc[s] = "migrate"
    /\ LET data == MigratedDocument(dLocal[s])
           save == dReq[s].kind \in Saves
       IN /\ dDoc' = data
          /\ IF save
             THEN /\ dPc' = [dPc EXCEPT ![s] = "loaded"]
                  /\ dLocal' = [dLocal EXCEPT ![s] = NormalizedDocument(data)]
                  /\ dResp' = NoResp
                  /\ UNCHANGED dReq
             ELSE /\ dPc' = [dPc EXCEPT ![s] = "idle"]
                  /\ dLocal' = [dLocal EXCEPT ![s] = Absent]
                  /\ dResp' = ReadResponse(dReq[s], NormalizedDocument(data))
                  /\ dReq' = [dReq EXCEPT ![s] = NoReq]
    /\ UNCHANGED <<dOver, dDone, dPuts>>

\* save_goal_for_month lines 304-307 / save_goal_for_year lines 322-327 after
\* their load, and the answer of api_goals (lines 1617-1625, 1633-1642)
DocSave(s) ==
    /\ dPc[s] = "loaded"
    /\ LET req == dReq[s]
           month == req.kind = "put_month"
           normalized == IF month THEN normalize_goal(req.body) ELSE AnnualGoalOf(req.body)
           goals == WithEntry(dLocal[s], IF month THEN "monthly" ELSE "annual",
                              req.key, normalized)
           ok == normalized.t # "raise"
       IN /\ dDoc' = IF ok THEN goals ELSE dDoc
          /\ dResp' = IF ~ok THEN Response(req, 500, PyNone, PyNone, PyNone)
                      ELSE IF month
                      THEN Response(req, 200, goals, get_goal_for_month(req.key, goals), PyNone)
                      ELSE Response(req, 200, goals, PyNone,
                                    get_goal_for_year(req.key, goals, TRUE))
          /\ dDone' = [dDone EXCEPT ![s] = ok /\ dOver[s]]
          /\ dReq' = [dReq EXCEPT ![s] = IF ok /\ dOver[s] THEN req ELSE NoReq]
    /\ dPc' = [dPc EXCEPT ![s] = "idle"]
    /\ dLocal' = [dLocal EXCEPT ![s] = Absent]
    /\ dOver' = [dOver EXCEPT ![s] = FALSE]
    /\ UNCHANGED dPuts

InitDoc ==
    /\ OffExcept("doc")
    /\ dDoc \in InitialRows
    /\ dPc = [s \in Sessions |-> "idle"]
    /\ dReq = [s \in Sessions |-> NoReq]
    /\ dLocal = [s \in Sessions |-> Absent]
    /\ dOver = [s \in Sessions |-> FALSE]
    /\ dDone = [s \in Sessions |-> FALSE]
    /\ dResp = NoResp
    /\ dPuts = 0

NextDoc ==
    \/ (\E s \in Sessions, r \in PutRequests, goal_body \in GoalBodies :
           DocPut(s, r[1], r[2], r[3], goal_body)) /\ FrameExcept("doc")
    \/ (\E s \in Sessions, q \in QueryMonths, y \in QueryYears : DocGet(s, q, y))
           /\ FrameExcept("doc")
    \/ (\E s \in Sessions, year \in LookupYears : DocProgress(s, year)) /\ FrameExcept("doc")
    \/ (\E s \in Sessions : DocMigrate(s)) /\ FrameExcept("doc")
    \/ (\E s \in Sessions : DocSave(s)) /\ FrameExcept("doc")

SpecDoc == InitDoc /\ [][NextDoc]_vars

\* ======================================================= yearly progress
ZeroCounters == [signed |-> 0, canceled |-> 0, net |-> 0]

\* lines 1074-1076: the progress of a month, zero when it has none
MonthProgress(monthly_progress, month_key) ==
    IF month_key \in DOMAIN monthly_progress THEN monthly_progress[month_key]
    ELSE [signed |-> 0, canceled |-> 0, net |-> 0, staff |-> << >>]

AddCounters(a, b) ==
    [signed |-> a.signed + b.signed, canceled |-> a.canceled + b.canceled,
     net |-> a.net + b.net]

\* A variant that overwrites a staff entry instead of adding to it.
AddStaff_Overwrites(sa, sb) ==
    [n \in DOMAIN sa \cup DOMAIN sb |-> IF n \in DOMAIN sb THEN sb[n] ELSE sa[n]]

\* lines 1089-1095
AddStaff(sa, sb) ==
    [n \in DOMAIN sa \cup DOMAIN sb |->
        AddCounters(IF n \in DOMAIN sa THEN sa[n] ELSE ZeroCounters,
                    IF n \in DOMAIN sb THEN sb[n] ELSE ZeroCounters)]

\* lines 1086-1095
AddProgress(a, b) ==
    [signed |-> a.signed + b.signed, canceled |-> a.canceled + b.canceled,
     net |-> a.net + b.net, staff |-> AddStaff(a.staff, b.staff)]

\* sorted(set(a) | set(b)) on lists of names
NameOrder == <<"A", "B">>
InList(l, n) == \E i \in DOMAIN l : l[i] = PyStr(n)
SortedUnion(a, b) ==
    LET keep(n) == InList(a, n) \/ InList(b, n)
        first == IF keep(NameOrder[1]) THEN <<PyStr(NameOrder[1])>> ELSE << >>
        second == IF keep(NameOrder[2]) THEN <<PyStr(NameOrder[2])>> ELSE << >>
    IN first \o second

\* lines 1078-1084: a month's goal added to the year's goal
AddGoal(acc, month_goal) ==
    LET sa == acc.d["staffTargets"].d
        sb == PyOr(DictGet(month_goal.d, "staffTargets"), PyDict(<< >>)).d
    IN PyDict([storeTarget |-> PyInt(acc.d["storeTarget"].i
                                    + GetOr(month_goal.d, "storeTarget", PyInt(0)).i),
               staffTargets |-> PyDict([n \in DOMAIN sa \cup DOMAIN sb |->
                    PyInt((IF n \in DOMAIN sa THEN sa[n].i ELSE 0)
                          + (IF n \in DOMAIN sb THEN sb[n].i ELSE 0))]),
               includeStaff |-> PyList(SortedUnion(acc.d["includeStaff"].l,
                    GetOr(month_goal.d, "includeStaff", PyList(<< >>)).l))])

\* lines 1058-1060, 1044: the keys that make up the years
AllMonthKeys(monthly_progress, goals) ==
    DOMAIN monthly_progress \cup DOMAIN PyOr(DictGet(goals.d, "monthly"), PyDict(<< >>)).d

YearKeys(monthly_progress, goals) ==
    {YearOfMonth(m) : m \in {k \in AllMonthKeys(monthly_progress, goals) : k # "" /\ HasDash(k)}}
    \cup {y \in DOMAIN PyOr(DictGet(goals.d, "annual"), PyDict(<< >>)).d : y # "" /\ ~HasDash(y)}

\* lines 1057-1095: the sum pass over the months of one year
RECURSIVE SumPass(_, _, _)
SumPass(months, monthly_progress, goals) ==
    IF months = {}
    THEN [goal |-> DEFAULT_GOAL, monthlyTargetTotal |-> 0,
          progress |-> [signed |-> 0, canceled |-> 0, net |-> 0, staff |-> << >>]]
    ELSE LET m == CHOOSE x \in months : TRUE
             rest == SumPass(months \ {m}, monthly_progress, goals)
             month_goal == get_goal_for_month(m, goals)
         IN [goal |-> AddGoal(rest.goal, month_goal),
             monthlyTargetTotal |-> rest.monthlyTargetTotal
                                    + GetOr(month_goal.d, "storeTarget", PyInt(0)).i,
             progress |-> AddProgress(rest.progress, MonthProgress(monthly_progress, m))]

\* A variant that lets the default goal stand in for a missing annual goal.
AnnualOverride_FallsBack(year, goals) == get_goal_for_year(year, goals, TRUE)

\* line 1101
AnnualOverride(year, goals) == get_goal_for_year(year, goals, FALSE)

\* lines 1042-1105
build_yearly_progress(monthly_progress, goals) ==
    [year \in YearKeys(monthly_progress, goals) |->
        LET months == {m \in AllMonthKeys(monthly_progress, goals) :
                          m # "" /\ HasDash(m) /\ YearOfMonth(m) = year}
            summed == SumPass(months, monthly_progress, goals)
            annual_goal == AnnualOverride(year, goals)
        IN [months |-> months,
            goal |-> IF Truthy(annual_goal) THEN annual_goal ELSE summed.goal,
            monthlyTargetTotal |-> summed.monthlyTargetTotal,
            progress |-> summed.progress]]

\* ---- inputs explored
ProgressMonths == {"2024-12", "2025-04", "2025-05"}

Counters(signed, canceled) == [signed |-> signed, canceled |-> canceled, net |-> signed - canceled]

\* lines 1003-1039: what build_monthly_progress yields for a month
MonthCounters ==
    {[signed |-> 1, canceled |-> 0, net |-> 1, staff |-> [n \in {"A"} |-> Counters(1, 0)]],
     [signed |-> 2, canceled |-> 1, net |-> 1,
      staff |-> [n \in {"A", "B"} |-> IF n = "A" THEN Counters(1, 1) ELSE Counters(1, 0)]]}

PartialMaps(keys, values) ==
    UNION {[dom -> values] : dom \in SUBSET keys}

StoredGoal(store, staff, include) ==
    PyDict([storeTarget |-> PyInt(store), staffTargets |-> PyDict(staff),
            includeStaff |-> PyList(include)])

MonthGoals ==
    {StoredGoal(1, [n \in {"A", "B"} |-> IF n = "A" THEN PyInt(3) ELSE PyInt(5)], << >>),
     StoredGoal(2, [n \in {"A"} |-> PyInt(2)], <<PyStr("B"), PyStr("A")>>)}

DefaultGoals == {DEFAULT_GOAL, StoredGoal(2, [n \in {"B"} |-> PyInt(2)], <<PyStr("B")>>)}

AnnualGoals ==
    {DEFAULT_GOAL, StoredGoal(8, [n \in {"A", "B"} |-> IF n = "A" THEN PyInt(3) ELSE PyInt(5)], << >>)}

GoalsDocuments ==
    {PyDict([default |-> d, monthly |-> PyDict(m), annual |-> PyDict(a)]) :
        d \in DefaultGoals, m \in PartialMaps(Months, MonthGoals),
        a \in PartialMaps(Years, AnnualGoals)}

InitYear ==
    /\ OffExcept("year")
    /\ yPhase = "input"
    /\ yProgress \in PartialMaps(ProgressMonths, MonthCounters)
    /\ yGoals \in GoalsDocuments
    /\ yOut = << >>

\* api_goal_progress line 1730
YearlyBuild ==
    /\ yPhase = "input"
    /\ yOut' = build_yearly_progress(yProgress, yGoals)
    /\ yPhase' = "done"
    /\ UNCHANGED <<yProgress, yGoals>>

NextYear == YearlyBuild /\ FrameExcept("year")

SpecYear == InitYear /\ [][NextYear]_vars

\* ========================================================== case numbers
\* An inquiry_date is ISO text "YYYY-MM-DD", modelled as <<year, month, day>>:
\* the order of the texts is the lexicographic order of the tuples.  The empty
\* text is << >>.
NoDate == << >>

\* a <= b on ISO date texts
DateLeq(a, b) ==
    \/ a[1] < b[1]
    \/ a[1] = b[1] /\ a[2] < b[2]
    \/ a[1] = b[1] /\ a[2] = b[2] /\ a[3] <= b[3]

\* str(n) of a non-negative int, as its characters
DigitChar(n) == <<"0", "1", "2", "3", "4", "5", "6", "7", "8", "9">>[n + 1]

RECURSIVE Digits(_)
Digits(n) == IF n < 10 THEN <<DigitChar(n)>> ELSE Digits(n \div 10) \o <<DigitChar(n % 10)>>

\* text[-2:]
LastTwo(text) == IF Len(text) <= 2 THEN text ELSE SubSeq(text, Len(text) - 1, Len(text))

\* f"{seq:04d}"
RECURSIVE ZeroPad(_, _)
ZeroPad(text, width) == IF Len(text) >= width THEN text ELSE ZeroPad(<<"0">> \o text, width)

\* line 801
PrefixOf(category) ==
    CASE category = "sell" -> "S"
      [] category = "buy" -> "B"
      [] category = "investment" -> "R"
      [] OTHER -> "X"

\* line 802
YearShort(year) == IF year >= 2000 THEN LastTwo(Digits(year)) ELSE Digits(year)

\* sorted(..., key=inquiry_date): a stable insertion sort
RECURSIVE InsertByDate(_, _)
InsertByDate(sorted, c) ==
    IF sorted = << >> THEN <<c>>
    ELSE IF DateLeq(Head(sorted).inquiry_date, c.inquiry_date)
         THEN <<Head(sorted)>> \o InsertByDate(Tail(sorted), c)
         ELSE <<c>> \o sorted

RECURSIVE SortFrom(_, _)
SortFrom(done, rest) ==
    IF rest = << >> THEN done ELSE SortFrom(InsertByDate(done, Head(rest)), Tail(rest))

\* A variant that keeps the customers in the order they were loaded.
SortedCustomers_Unsorted(existing_customers) ==
    SelectSeq(existing_customers, LAMBDA c : c.inquiry_date # NoDate)

\* lines 804-807
SortedCustomers(existing_customers) ==
    SortFrom(<< >>, SelectSeq(existing_customers, LAMBDA c : c.inquiry_date # NoDate))

\* lines 809-815: 1 plus the leading customers dated on or before inquiry_date
RECURSIVE SeqFrom(_, _, _)
SeqFrom(seq, customers, inquiry_date) ==
    IF customers = << >> THEN seq
    ELSE IF DateLeq(Head(customers).inquiry_date, inquiry_date)
         THEN SeqFrom(seq + 1, Tail(customers), inquiry_date)
         ELSE seq

\* lines 799-817
generate_case_number_for_date(category, year, inquiry_date, existing_customers) ==
    <<PrefixOf(category)>> \o YearShort(year)
        \o ZeroPad(Digits(SeqFrom(1, SortedCustomers(existing_customers), inquiry_date)), 4)

\* ---- inputs explored
Categories == {"sell", "buy", "investment", "rent"}
CaseYears == {1999, 2000, 2025}
InquiryDates == {<<2025, 4, 1>>, <<2025, 4, 15>>, <<2025, 5, 1>>}

Customer(date) == [inquiry_date |-> date]

CustomerLists ==
    UNION {[1..n -> {Customer(d) : d \in InquiryDates \cup {NoDate}}] : n \in 0..MaxExisting}

InitCase ==
    /\ OffExcept("case")
    /\ cPhase = "input"
    /\ cIn \in [category : Categories, year : CaseYears, inquiry_date : InquiryDates,
                existing_customers : CustomerLists]
    /\ cOut = << >>

\* api_create_customer line 1895, api_generate_case_number line 2003
CaseGenerate ==
    /\ cPhase = "input"
    /\ cOut' = generate_case_number_for_date(cIn.category, cIn.year, cIn.inquiry_date,
                                             cIn.existing_customers)
    /\ cPhase' = "done"
    /\ UNCHANGED cIn

NextCase == CaseGenerate /\ FrameExcept("case")

SpecCase == InitCase /\ [][NextCase]_vars

\* ============================================================== customers
\* The (category, year) partition the handlers below work on.
CustCategory == "sell"
CustYear == 2025
CustDates == {<<2025, 4, 1>>, <<2025, 5, 1>>}

\* f"{prefix}{year_short}{idx:04d}"
CaseNumber(category, year, idx) ==
    <<PrefixOf(category)>> \o YearShort(year) \o ZeroPad(Digits(idx), 4)

IsDigit(ch) == ch \in {"0", "1", "2", "3", "4", "5", "6", "7", "8", "9"}

DigitValue(ch) ==
    CASE ch = "0" -> 0 [] ch = "1" -> 1 [] ch = "2" -> 2 [] ch = "3" -> 3 [] ch = "4" -> 4
      [] ch = "5" -> 5 [] ch = "6" -> 6 [] ch = "7" -> 7 [] ch = "8" -> 8 [] ch = "9" -> 9

\* int(text) of a text of digits
RECURSIVE DigitsToInt(_)
DigitsToInt(text) ==
    IF text = << >> THEN 0
    ELSE 10 * DigitsToInt(SubSeq(text, 1, Len(text) - 1)) + DigitValue(text[Len(text)])

\* A variant that ranks the higher number first.
case_seq_Descending(value) ==
    IF Len(value) >= 4 /\ \A i \in (Len(value) - 3)..Len(value) : IsDigit(value[i])
    THEN 9999 - DigitsToInt(SubSeq(value, Len(value) - 3, Len(value)))
    ELSE 9999

\* lines 831-835: the int of the four trailing digits, 9999 without them
case_seq(value) ==
    IF Len(value) >= 4 /\ \A i \in (Len(value) - 3)..Len(value) : IsDigit(value[i])
    THEN DigitsToInt(SubSeq(value, Len(value) - 3, Len(value)))
    ELSE 9999

\* the code point order of the characters of a case number
CharRank(ch) ==
    CASE IsDigit(ch) -> DigitValue(ch)
      [] ch = "B" -> 10
      [] ch = "R" -> 11
      [] ch = "S" -> 12
      [] OTHER -> 13

\* a < b on str
RECURSIVE TextLess(_, _)
TextLess(a, b) ==
    IF b = << >> THEN FALSE
    ELSE IF a = << >> THEN TRUE
    ELSE IF CharRank(Head(a)) # CharRank(Head(b)) THEN CharRank(Head(a)) < CharRank(Head(b))
    ELSE TextLess(Tail(a), Tail(b))

\* c.get("inquiry_date") or "9999-99-99"
DateKey(c) == IF c.inquiry_date = NoDate THEN <<9999, 99, 99>> ELSE c.inquiry_date

\* line 839: the sort key without its last part, created_at
KeyLess(a, b) ==
    \/ ~DateLeq(DateKey(b), DateKey(a))
    \/ /\ DateKey(a) = DateKey(b)
       /\ \/ case_seq(a.case_number) < case_seq(b.case_number)
          \/ /\ case_seq(a.case_number) = case_seq(b.case_number)
             /\ TextLess(a.case_number, b.case_number)

\* A variant of the sort key that leaves the inquiry_date out.
Ranked_BySeqOnly(customers, i) ==
    1 + Cardinality({j \in 1..Len(customers) :
            \/ case_seq(customers[j].case_number) < case_seq(customers[i].case_number)
            \/ case_seq(customers[j].case_number) = case_seq(customers[i].case_number) /\ j < i})

\* lines 837-844: idx of row i in sorted_customers.  The rows are held in
\* created_at order, the last part of the sort key.
Ranked(customers, i) ==
    1 + Cardinality({j \in 1..Len(customers) :
            \/ KeyLess(customers[j], customers[i])
            \/ ~KeyLess(customers[i], customers[j]) /\ j < i})

\* lines 820-852: every row gets the case number of its rank
reassign_case_numbers(category, year, customers) ==
    [i \in 1..Len(customers) |->
        [customers[i] EXCEPT !.case_number = CaseNumber(category, year, Ranked(customers, i))]]

\* DELETE FROM customers WHERE id = %s::uuid
delete_customer(customers, i) ==
    [j \in 1..(Len(customers) - 1) |-> IF j < i THEN customers[j] ELSE customers[j + 1]]

\* A variant of the delete handler without the re-derivation.
AfterDelete_NoReassign(category, year, customers, i) == delete_customer(customers, i)

\* api_delete_customer, lines 1979-1980
AfterDelete(category, year, customers, i) ==
    reassign_case_numbers(category, year, delete_customer(customers, i))

\* api_create_customer, lines 1894-1944: the row saved
NewCustomer(category, year, customers, date) ==
    [inquiry_date |-> date,
     case_number |-> generate_case_number_for_date(category, year, date, customers)]

\* The rows a handler found in the table and left there with another case number.
Rewritten(before, after) ==
    Cardinality({i \in 1..Len(before) : before[i].case_number # after[i].case_number})

\* The payloads of api_update_customer explored; "" is saved as NULL / "".
CustPayloads ==
    {[key |-> "inquiry_date", value |-> d] : d \in CustDates \cup {NoDate}}
        \cup {[key |-> "case_number", value |-> << >>]}

\* an empty partition
InitCust == OffExcept("cust") /\ CustOff

\* api_create_customer: inquiry_date is required; the case number is generated
CustCreate(date) ==
    /\ Len(kRecs) < MaxExisting
    /\ kRecs' = Append(kRecs, NewCustomer(CustCategory, CustYear, kRecs, date))
    /\ kResp' = [op |-> "create", rewritten |-> Rewritten(kRecs, kRecs')]
    /\ UNCHANGED kEdited

\* api_update_customer: the keys of the payload overwrite the row
CustUpdate(i, payload) ==
    /\ i \in 1..Len(kRecs)
    /\ kRecs' = [kRecs EXCEPT ![i] = [kRecs[i] EXCEPT ![payload.key] = payload.value]]
    /\ kResp' = [op |-> "update", rewritten |-> Rewritten(kRecs, kRecs')]
    /\ kEdited' = TRUE

\* api_delete_customer
CustDelete(i) ==
    /\ i \in 1..Len(kRecs)
    /\ kRecs' = AfterDelete(CustCategory, CustYear, kRecs, i)
    /\ kResp' = [op |-> "delete", rewritten |-> Rewritten(delete_customer(kRecs, i), kRecs')]
    /\ UNCHANGED kEdited

\* api_reassign_case_numbers
CustReassign ==
    /\ kRecs' = reassign_case_numbers(CustCategory, CustYear, kRecs)
    /\ kResp' = [op |-> "reassign", rewritten |-> Rewritten(kRecs, kRecs')]
    /\ UNCHANGED kEdited

NextCust ==
    \/ (\E date \in CustDates : CustCreate(date)) /\ FrameExcept("cust")
    \/ (\E i \in 1..MaxExisting, payload \in CustPayloads : CustUpdate(i, payload))
          /\ FrameExcept("cust")
    \/ (\E i \in 1..MaxExisting : CustDelete(i)) /\ FrameExcept("cust")
    \/ CustReassign /\ FrameExcept("cust")

SpecCust == InitCust /\ [][NextCust]_vars

\* ======================================================= monthly progress
\* The fields of a contract (db_row_to_contract) read by build_monthly_progress:
\*   staff           "担当"            staff_id or ""
\*   mediation_date  "新規媒介締結日"   format_date: ISO text or ""
\*   status_date     "ステータス日付"   format_date: ISO text or ""
\*   cancel_reason   "中止理由"         the stored JSON value, with "中止日" as
\*                                     cancel_date when it is a dict
\*   deal_status     "取引状況"         "中止" is written "canceled"
UNASSIGNED == "unassigned"      \* "未設定"
CANCELED == "canceled"          \* "中止"

\* strptime(text, "%Y-%m-%d") on the texts of the model: year, month, day as
\* written, << >> when the text does not have the format
DateFields(text) ==
    CASE text = "2025-04-10" -> <<2025, 4, 10>>
      [] text = "2025-05-20" -> <<2025, 5, 20>>
      [] text = "2025-06-05" -> <<2025, 6, 5>>
      [] text = "2025-02-30" -> <<2025, 2, 30>>
      [] OTHER -> << >>

IsLeap(y) == y % 4 = 0 /\ (y % 100 # 0 \/ y % 400 = 0)

DaysIn(y, m) ==
    CASE m \in {4, 6, 9, 11} -> 30
      [] m = 2 -> IF IsLeap(y) THEN 29 ELSE 28
      [] OTHER -> 31

\* strptime raises ValueError for a day that is not in the calendar
ValidDate(f) == f # << >> /\ f[1] \in 1..9999 /\ f[2] \in 1..12 /\ f[3] \in 1..DaysIn(f[1], f[2])

RECURSIVE PadText(_, _)
PadText(text, width) == IF Len(text) >= width THEN text ELSE PadText("0" \o text, width)

\* f"{dt.year:04d}-{dt.month:02d}"
MonthKeyText(y, m) == PadText(ToString(y), 4) \o "-" \o PadText(ToString(m), 2)

\* lines 395-402
month_key_from_date(date_str) ==
    IF ~Truthy(date_str) THEN PyNone
    ELSE IF date_str.t # "str" THEN PyNone
    ELSE IF ~ValidDate(DateFields(date_str.s)) THEN PyNone
    ELSE PyStr(MonthKeyText(DateFields(date_str.s)[1], DateFields(date_str.s)[2]))

\* line 1013: contract.get("担当") or "未設定"
StaffOf(contract) == IF contract.staff = "" THEN UNASSIGNED ELSE contract.staff

\* A variant that prefers the status date.
SignedMonth_StatusFirst(contract) ==
    month_key_from_date(PyOr(PyStr(contract.status_date), PyStr(contract.mediation_date)))

\* line 1015
SignedMonth(contract) ==
    month_key_from_date(PyOr(PyStr(contract.mediation_date), PyStr(contract.status_date)))

\* A variant that falls back to the status date whatever the deal status is.
CancelMonth_AnyStatus(contract) ==
    LET cancel_info == IF contract.cancel_reason.t = "dict" THEN contract.cancel_reason ELSE PyNone
        cancel_month == IF cancel_info.t = "dict"
                        THEN month_key_from_date(DictGet(cancel_info.d, "cancel_date"))
                        ELSE PyNone
    IN IF ~Truthy(cancel_month)
       THEN month_key_from_date(PyStr(contract.status_date))
       ELSE cancel_month

\* lines 1024-1029
CancelMonth(contract) ==
    LET cancel_info == IF contract.cancel_reason.t = "dict" THEN contract.cancel_reason ELSE PyNone
        cancel_month == IF cancel_info.t = "dict"
                        THEN month_key_from_date(DictGet(cancel_info.d, "cancel_date"))
                        ELSE PyNone
    IN IF ~Truthy(cancel_month) /\ contract.deal_status = CANCELED
       THEN month_key_from_date(PyStr(contract.status_date))
       ELSE cancel_month

SignedEvent == [signed |-> 1, canceled |-> 0, net |-> 1]

\* A variant that leaves net alone.
CanceledEvent_KeepsNet == [signed |-> 0, canceled |-> 1, net |-> 0]

CanceledEvent == [signed |-> 0, canceled |-> 1, net |-> 0 - 1]

\* lines 1006-1010, 1017-1022 and 1032-1037: ensure_month, then the counters of
\* the month and of the month's entry of the staff member move by the event
AddEvent(monthly, month_key, staff, event) ==
    LET entry == MonthProgress(monthly, month_key)
        staff_entry == IF staff \in DOMAIN entry.staff THEN entry.staff[staff] ELSE ZeroCounters
        entry2 == [signed |-> entry.signed + event.signed,
                   canceled |-> entry.canceled + event.canceled,
                   net |-> entry.net + event.net,
                   staff |-> [n \in DOMAIN entry.staff \cup {staff} |->
                                 IF n = staff THEN AddCounters(staff_entry, event)
                                 ELSE entry.staff[n]]]
    IN [k \in DOMAIN monthly \cup {month_key} |-> IF k = month_key THEN entry2 ELSE monthly[k]]

\* lines 1012-1037: one turn of the loop
AddContract(monthly, contract) ==
    LET signed_month == SignedMonth(contract)
        cancel_month == CancelMonth(contract)
        signed == IF Truthy(signed_month)
                  THEN AddEvent(monthly, signed_month.s, StaffOf(contract), SignedEvent)
                  ELSE monthly
    IN IF Truthy(cancel_month)
       THEN AddEvent(signed, cancel_month.s, StaffOf(contract), CanceledEvent)
       ELSE signed

RECURSIVE ProgressFrom(_, _)
ProgressFrom(monthly, contracts) ==
    IF contracts = << >> THEN monthly
    ELSE ProgressFrom(AddContract(monthly, Head(contracts)), Tail(contracts))

\* lines 1003-1039
build_monthly_progress(contracts) == ProgressFrom(<< >>, contracts)

\* ---- inputs explored
CancelReasons ==
    {PyNone, PyStr("sold elsewhere"), PyDict(<< >>),
     PyDict([cancel_date |-> PyStr("2025-06-05")]),
     PyDict([cancel_date |-> PyStr("2025-02-30")])}

Contracts ==
    [staff : {"", "Tanaka"}, mediation_date : {"", "2025-04-10"},
     status_date : {"", "2025-05-20"}, cancel_reason : CancelReasons,
     deal_status : {"", CANCELED}]

InitMonth ==
    /\ OffExcept("month")
    /\ mPhase = "input"
    /\ mContracts \in UNION {[1..n -> Contracts] : n \in 0..MaxContracts}
    /\ mOut = << >>

\* api_goal_progress: monthly_progress = build_monthly_progress()
MonthlyBuild ==
    /\ mPhase = "input"
    /\ mOut' = build_monthly_progress(mContracts)
    /\ mPhase' = "done"
    /\ UNCHANGED mContracts

NextMonth == MonthlyBuild /\ FrameExcept("month")

SpecMonth == InitMonth /\ [][NextMonth]_vars

\* ============================================================== contracts
\* The contract the handlers below are called for, and its lock key.
ContractId == "c1"
ContractKey == <<"contract", ContractId>>

\* SELECT * FROM contracts WHERE id = %s
find_contract(rows, contract_id) == {r \in rows : r.id = contract_id}

\* DELETE FROM contracts WHERE id = %s
delete_contract(rows, contract_id) == {r \in rows : r.id # contract_id}

\* INSERT INTO contracts ... ON CONFLICT (id) DO UPDATE SET ...
save_contract(rows, contract_id, user) ==
    delete_contract(rows, contract_id) \cup {[id |-> contract_id, updated_by |-> user]}

ConResp(op, status, user) == [op |-> op, status |-> status, user |-> user]

\* a step that touches neither table contracts nor a contract request
LockStep == tResp' = NoConResp /\ UNCHANGED <<tContracts, tPc, tUser>>

\* a step that leaves table record_locks and the lock calls alone
ContractStep == UNCHANGED lockVars

InitContract ==
    /\ OffExcept("contract")
    /\ InitLocks
    /\ tContracts = {[id |-> ContractId, updated_by |-> ""]}
    /\ tPc = [s \in Sessions |-> "idle"]
    /\ tUser = [s \in Sessions |-> ""]
    /\ tResp = NoConResp

Idle(s) == tPc[s] = "idle" /\ pc[s] = "idle"

\* api_update_contract, lines 1368-1376, for a payload that keeps the id:
\* duplicate_exists finds no other row of the id, find_contract decides
ConUpdFind(s, u) ==
    /\ Idle(s)
    /\ IF find_contract(tContracts, ContractId) = {}
       THEN /\ tResp' = ConResp("update", 404, u)
            /\ UNCHANGED <<tPc, tUser>>
       ELSE /\ tResp' = ConResp("update", 0, u)
            /\ tPc' = [tPc EXCEPT ![s] = "upd_save"]
            /\ tUser' = [tUser EXCEPT ![s] = u]
    /\ UNCHANGED tContracts
    /\ ContractStep

\* A variant that releases the lease of the contract after saving.
ConUpdSave_Releases(s) ==
    /\ tPc[s] = "upd_save"
    /\ tContracts' = save_contract(tContracts, ContractId, tUser[s])
    /\ tResp' = ConResp("update", 200, tUser[s])
    /\ tPc' = [tPc EXCEPT ![s] = "idle"]
    /\ tUser' = [tUser EXCEPT ![s] = ""]
    /\ Release(s, ContractKey)

\* api_update_contract, lines 1378-1426: save_contract(payload, year_month)
ConUpdSave(s) ==
    /\ tPc[s] = "upd_save"
    /\ tContracts' = save_contract(tContracts, ContractId, tUser[s])
    /\ tResp' = ConResp("update", 200, tUser[s])
    /\ tPc' = [tPc EXCEPT ![s] = "idle"]
    /\ tUser' = [tUser EXCEPT ![s] = ""]
    /\ ContractStep

\* api_delete_contract, lines 1432-1434: find_contract
ConDelFind(s) ==
    /\ Idle(s)
    /\ IF find_contract(tContracts, ContractId) = {}
       THEN /\ tResp' = ConResp("delete", 404, "")
            /\ UNCHANGED tPc
       ELSE /\ tResp' = ConResp("delete", 0, "")
            /\ tPc' = [tPc EXCEPT ![s] = "del_delete"]
    /\ UNCHANGED <<tContracts, tUser>>
    /\ ContractStep

\* api_delete_contract, line 1436: delete_contract(contract_id)
ConDelDelete(s) ==
    /\ tPc[s] = "del_delete"
    /\ tContracts' = delete_contract(tContracts, ContractId)
    /\ tResp' = ConResp("delete", 0, "")
    /\ tPc' = [tPc EXCEPT ![s] = "del_release"]
    /\ UNCHANGED tUser
    /\ ContractStep

\* api_delete_contract, lines 1437-1438: release_lock("contract", contract_id)
ConDelRelease(s) ==
    /\ tPc[s] = "del_release"
    /\ Release(s, ContractKey)
    /\ tResp' = ConResp("delete", 200, "")
    /\ tPc' = [tPc EXCEPT ![s] = "idle"]
    /\ UNCHANGED <<tContracts, tUser>>

\* api_lock_contract and api_unlock_contract of the contract, with the contract
\* handlers; the clock stands still
NextContract ==
    \/ (\E s \in Sessions, u \in Users : Idle(s) /\ AcqCleanup(s, ContractKey, u) /\ LockStep)
          /\ FrameExcept("contract")
    \/ (\E s \in Sessions : AcqClock(s) /\ LockStep) /\ FrameExcept("contract")
    \/ (\E s \in Sessions : AcqSelect(s) /\ LockStep) /\ FrameExcept("contract")
    \/ (\E s \in Sessions : AcqInsert(s) /\ LockStep) /\ FrameExcept("contract")
    \/ (\E s \in Sessions : Idle(s) /\ Release(s, ContractKey) /\ LockStep)
          /\ FrameExcept("contract")
    \/ (\E s \in Sessions, u \in Users : ConUpdFind(s, u)) /\ FrameExcept("contract")
    \/ (\E s \in Sessions : ConUpdSave(s)) /\ FrameExcept("contract")
    \/ (\E s \in Sessions : ConDelFind(s)) /\ FrameExcept("contract")
    \/ (\E s \in Sessions : ConDelDelete(s)) /\ FrameExcept("contract")
    \/ (\E s \in Sessions : ConDelRelease(s)) /\ FrameExcept("contract")

SpecContract == InitContract /\ [][NextContract]_vars

\* ------------------------------------------------------- specifications
Init == InitLocks /\ OffExcept("lock")

Next == NextLocks

Spec == Init /\ [][Next]_vars

SpecGoal == InitGoal /\ [][NextGoal]_vars

\* ============================================================ properties
StepOfAcquire(s) == pc[s] # pc'[s] /\ (pc[s] \in AcqPcs \/ pc'[s] \in AcqPcs)

ReturnsConflict(s) == pc[s] \in AcqPcs /\ pc'[s] = "idle" /\ resp'.kind = "conflict"

\* C1: in every reachable state each (resourceType, resourceId) pair has at
\* most one live lease (expires_at > now), whatever the interleaving of
\* acquire, release and listActive calls.
C1_AtMostOneLiveLease ==
    \A k \in Keys : Cardinality(Live(RowsFor(locks, k), now)) <= 1

\* A live lease exists while another session, having seen no row, is about
\* to INSERT a row for the same key.
C1_Witness ==
    \E s \in Sessions :
        /\ pc[s] = "acq_insert"
        /\ \E r \in Live(RowsFor(locks, arg[s].key), now) : r.locked_by # arg[s].user

\* C2: when two acquire calls for one key overlap, the key had no row when
\* each started and no row of the key was deleted meanwhile, exactly one of
\* them is granted, the other returns a conflict, and neither raises.
C2_ExactlyOneWinner ==
    /\ resp.kind # "error"
    /\ \A p \in Sessions, q \in Sessions :
          ( /\ p # q
            /\ pc[p] = "idle" /\ pc[q] = "idle"
            /\ outcome[p] # "none" /\ outcome[q] # "none"
            /\ q \in peers[p] /\ p \in peers[q]
            /\ clean[p] /\ clean[q]
            /\ arg[p].key = arg[q].key )
          => \/ outcome[p] = "granted" /\ outcome[q] = "conflict"
             \/ outcome[p] = "conflict" /\ outcome[q] = "granted"

\* Both racing calls have returned and the step just taken is the loser's
\* INSERT being rejected by the uniqueness constraint.
C2_Witness ==
    \E p \in Sessions, q \in Sessions :
        /\ p # q
        /\ pc[p] = "idle" /\ pc[q] = "idle"
        /\ q \in peers[p] /\ p \in peers[q]
        /\ clean[p] /\ clean[q]
        /\ outcome[p] = "granted" /\ outcome[q] = "conflict"
        /\ resp = RejectedRet

\* C3: an expired lease never blocks acquire: whenever an acquire returns a
\* conflict, a live lease (expires_at > now) exists for the key at that moment.
C3_ExpiredNeverBlocks ==
    [][\A s \in Sessions :
          ReturnsConflict(s) => Live(RowsFor(locks, arg[s].key), now) # {}]_vars

\* C4: every conflict returned by acquire carries the holder and the
\* expires_at of the lease stored for the key at that moment, also for the
\* loser of a race whose INSERT was rejected.
C4_ConflictCarriesLease ==
    [][\A s \in Sessions :
          ReturnsConflict(s) =>
             \E r \in RowsFor(locks', arg[s].key) :
                /\ resp'.user = r.locked_by
                /\ resp'.expires_at = IsoText(r.expires_at)]_vars

\* C5: no step of an acquire call taken while a live lease exists for its
\* key changes the rows of that key: the lease keeps its holder, locked_at
\* and expires_at, and no second row appears.
C5_ConflictChangesNothing ==
    [][\A s \in Sessions :
          (StepOfAcquire(s) /\ Live(RowsFor(locks, arg'[s].key), now) # {})
          => /\ RowsFor(locks', arg'[s].key) = RowsFor(locks, arg'[s].key)
             /\ Cardinality(RowsFor(locks', arg'[s].key)) = 1]_vars

\* A conflict has just been returned for a key whose lease is live.
C5_Witness ==
    /\ resp.kind = "conflict"
    /\ resp.user \in Users
    /\ \E r \in Live(locks, now) : IsoText(r.expires_at) = resp.expires_at

\* C6: release(k) returns normally, leaves no row of k whoever holds it,
\* leaves the rows of every other key as they were, changes nothing when k
\* has no row, and a second release(k) changes nothing more.
C6_ReleaseRemovesOnlyTheKey ==
    [][\A s \in Sessions, k \in Keys :
          Release(s, k) =>
             /\ resp'.kind = "released"
             /\ RowsFor(locks', k) = {}
             /\ \A k2 \in Keys \ {k} : RowsFor(locks', k2) = RowsFor(locks, k2)
             /\ (RowsFor(locks, k) = {} => locks' = locks)
             /\ release_lock(locks', k) = locks']_vars

\* A release has just returned while another key still holds its lease.
C6_Witness ==
    /\ resp.kind = "released"
    /\ locks # {}
    /\ \E k \in Keys : RowsFor(locks, k) = {}

\* C7: listActive returns exactly the leases live at the time of its SELECT.
C7_ListReturnsExactlyLive ==
    [][\A s \in Sessions :
          (pc[s] = "list_select" /\ pc'[s] = "idle")
          => resp'.rows = {ListEntry(r) : r \in Live(locks, now)}]_vars

\* C8: every stored lease has expires_at = locked_at + 2, no step changes a
\* stored lease, and an acquire by the holder of a live lease returns a
\* conflict and leaves the table as it was.
C8_FixedDurationNoRenewal ==
    [][/\ \A r \in locks' : r.expires_at = r.locked_at + 2
       /\ \A r \in locks, r2 \in locks' : KeyOf(r) = KeyOf(r2) => r = r2
       /\ \A s \in Sessions :
             ( /\ pc[s] = "acq_select" /\ pc'[s] # "acq_select"
               /\ \E r \in Live(RowsFor(locks, arg[s].key), now) :
                     r.locked_by = arg[s].user )
             => resp'.kind = "conflict" /\ locks' = locks]_vars

\* The holder of a lease that is still live, acquired earlier, has asked
\* again and is about to run the existence check.
C8_Witness ==
    \E s \in Sessions :
        /\ pc[s] = "acq_select"
        /\ \E r \in Live(RowsFor(locks, arg[s].key), now) :
              r.locked_by = arg[s].user /\ tnow[s] > r.locked_at

\* C9: normalize_goal is idempotent: whenever it returns for a payload,
\* applying it to its own result returns that result again.
C9_NormalizeGoalIdempotent ==
    gPhase = "twice" => gOut2 = gOut

\* The second pass has run on a payload the first pass had to clean:
\* a string target, a blank-padded name and an extra key.
C9_Witness ==
    /\ gPhase = "twice"
    /\ gOut # gIn
    /\ gIn.t = "dict"
    /\ "note" \in DOMAIN gOut2.d
    /\ gOut2.d["staffTargets"] = PyDict([n \in {"A"} |-> PyInt(5)])
    /\ gOut2.d["includeStaff"] = PyList(<<PyStr("a"), PyStr("b")>>)
    /\ gOut2.d["storeTarget"] = PyInt(7)

\* C10: normalize_goal never raises: for every payload it returns a goal.
C10_NormalizeGoalNeverRaises ==
    gPhase # "input" => gOut.t # "raise"

\* The staffTargets mapping of the payload (empty when there is none).
StaffIn ==
    IF gIn.t = "dict" /\ "staffTargets" \in DOMAIN gIn.d /\ gIn.d["staffTargets"].t = "dict"
    THEN gIn.d["staffTargets"].d ELSE << >>

\* The values int() accepts: numbers, bools and decimal literals.
ConvertsToInt(v) == v.t \in {"bool", "int", "float"} \/ (v.t = "str" /\ v.s \in IntLiterals)

\* C11 (as stated): a staffTargets entry is in the result iff its value
\* parses as an integer >= 0, and then with that integer; entries whose
\* value parses to a negative integer are absent.
C11_KeptIffNonNegative ==
    (gPhase # "input" /\ gOut.t = "dict") =>
        \A name \in DOMAIN StaffIn :
            LET n == IntOf(StaffIn[name])
                out == gOut.d["staffTargets"].d
            IN /\ name \in DOMAIN out <=> (n.e = "" /\ n.i >= 0)
               /\ name \in DOMAIN out => out[name] = PyInt(n.i)

\* C11 (amended): a staffTargets entry is in the result iff int() accepts
\* its value; its value is that integer, or 0 when the integer is negative;
\* the result has no other entries.
C11_KeptIffConvertsClamped ==
    (gPhase # "input" /\ gOut.t = "dict") =>
        LET out == gOut.d["staffTargets"].d
        IN /\ DOMAIN out \subseteq DOMAIN StaffIn
           /\ \A name \in DOMAIN StaffIn :
                /\ name \in DOMAIN out <=> ConvertsToInt(StaffIn[name])
                /\ name \in DOMAIN out =>
                      out[name] = PyInt(IF IntOf(StaffIn[name]).i >= 0
                                        THEN IntOf(StaffIn[name]).i ELSE 0)

\* A payload with a negative target has been normalised: the entry is kept as 0.
C11_Witness ==
    /\ gPhase = "once"
    /\ gOut.t = "dict"
    /\ "A" \in DOMAIN StaffIn
    /\ StaffIn["A"] = PyInt(0 - 1)
    /\ gOut.d["staffTargets"].d["A"] = PyInt(0)

\* The store the contract prescribes for a record: the supplied value when it
\* parses as a non-negative number and is not zero beside non-zero staff,
\* otherwise the sum of the cleaned staff values.
SalesStoreIn == FloatOf(DictGet(sIn.d, "store"))
SalesStaffOut == sOut.d["staff"].d
NonNegativeNumber(v) == v.t = "inf" \/ (v.t = "float" /\ v.x >= 0)
StoreAsSpecified ==
    IF /\ SalesStoreIn.e = ""
       /\ NonNegativeNumber(SalesStoreIn.v)
       /\ ~(IsZero(SalesStoreIn.v) /\ SumValues(SalesStaffOut) # PyFloat(0))
    THEN SalesStoreIn.v
    ELSE SumValues(SalesStaffOut)

\* C12: normalize_sales returns the supplied store when it parses as a
\* non-negative number and is not zero beside non-zero staff; otherwise
\* (missing, unparsable, negative or not a number, zero beside non-zero staff)
\* the sum of the cleaned staff values; empty staff and missing store give 0.
C12_StoreAsSpecified ==
    (sPhase = "done" /\ sIn.t = "dict" /\ sOut.t = "dict") =>
        /\ sOut.d["store"] = StoreAsSpecified
        /\ ("store" \notin DOMAIN sIn.d /\ SalesStaffOut = << >>)
               => sOut.d["store"] = PyFloat(0)

\* Apart from a store that parses to NaN the code computes the prescribed store.
SalesStoreUnlessNaN ==
    (sPhase = "done" /\ sIn.t = "dict" /\ sOut.t = "dict" /\ SalesStoreIn.v # PyNaN) =>
        sOut.d["store"] = StoreAsSpecified

\* ---- goals document
Answered(ops) == dResp.op \in ops /\ dResp.status = 200

\* C13: after a year save the persisted annual goal of that year has the
\* normalised staffTargets of the body and a storeTarget equal to their sum,
\* whatever storeTarget the caller supplied ({A:3, B:5} with storeTarget 1
\* persists 8, empty staffTargets persist 0).
C13_AnnualStoreIsStaffSum ==
    Answered({"put_year"}) =>
        LET saved == dDoc.d["annual"].d[dResp.req.key].d
            staff == normalize_goal(dResp.req.body).d["staffTargets"].d
        IN /\ saved["staffTargets"].d = staff
           /\ saved["storeTarget"] = PyInt(SumInts(staff, DOMAIN staff))
           /\ staff = << >> => saved["storeTarget"] = PyInt(0)
           /\ (DOMAIN staff = {"A", "B"} /\ staff["A"] = PyInt(3) /\ staff["B"] = PyInt(5))
                  => saved["storeTarget"] = PyInt(8)

\* A year save of staffTargets {A:3, B:5} with storeTarget 1 has persisted 8.
C13_Witness ==
    /\ Answered({"put_year"})
    /\ dResp.req.body.d["storeTarget"] = PyInt(1)
    /\ dResp.req.body.d["staffTargets"].t = "dict"
    /\ dDoc.d["annual"].d["2025"].d["storeTarget"] = PyInt(8)

\* C14: the goal answered for a month is the explicit monthly goal whenever the
\* loaded document stores one for it, even an all-zero one, otherwise the
\* default goal, otherwise a zero goal; after a month save it is the
\* normalised body, which is also what the document now stores for the month.
C14_MonthGoalResolution ==
    Answered({"get", "put_month"}) =>
        LET goals == dResp.goals.d
            monthly == goals["monthly"].d
            m == dResp.req.key
        IN /\ dResp.goal = IF m \in DOMAIN monthly THEN monthly[m]
                           ELSE IF "default" \in DOMAIN goals THEN goals["default"]
                           ELSE DEFAULT_GOAL
           /\ dResp.op = "put_month" =>
                  /\ dResp.goal = normalize_goal(dResp.req.body)
                  /\ dDoc.d["monthly"].d[m] = dResp.goal

\* A month save of an all-zero goal beside a non-zero default answers the
\* zero goal.
C14_Witness ==
    /\ Answered({"put_month"})
    /\ dResp.goal = DEFAULT_GOAL
    /\ dResp.goals.d["default"].d["storeTarget"] = PyInt(2)

\* C15: the annual goal answered for a year is the explicit annual goal
\* whenever the loaded document stores one, even an all-zero one; when none is
\* stored it is the default goal with fallback_to_default and None without.
C15_YearGoalResolution ==
    Answered({"get", "progress", "put_year"}) =>
        LET goals == dResp.goals.d
            annual == goals["annual"].d
            y == dResp.req.year
        IN dResp.annualGoal = IF y \in DOMAIN annual THEN annual[y]
                              ELSE IF dResp.op # "progress" THEN goals["default"]
                              ELSE PyNone

\* Without fallback an all-zero annual goal is answered as that goal, and a
\* year without annual goal would be None.
C15_Witness ==
    /\ Answered({"progress"})
    /\ dResp.req.year \in DOMAIN dResp.goals.d["annual"].d
    /\ dResp.annualGoal = DEFAULT_GOAL

\* C16: a goal save whose body names a month that is not of the form YYYY-MM
\* is answered with an error and stores nothing.
C16_InvalidMonthRejected ==
    (dResp.op = "put_month" /\ dResp.req.bad) => dResp.status # 200

\* The entry a completed save wrote: section, key and goal.
SavedEntry(req) ==
    IF req.kind = "put_month" THEN <<"monthly", req.key, normalize_goal(req.body)>>
    ELSE <<"annual", req.key, AnnualGoalOf(req.body)>>

Persisted(entry) ==
    /\ dDoc # Absent
    /\ entry[2] \in DOMAIN dDoc.d[entry[1]].d
    /\ dDoc.d[entry[1]].d[entry[2]] = entry[3]

\* C17: when two saves of different entries overlapped and both completed, the
\* persisted document holds both saved entries.
C17_NoLostUpdate ==
    \A s, t \in Sessions :
        (/\ s # t
         /\ dDone[s] /\ dDone[t]
         /\ <<dReq[s].kind, dReq[s].key>> # <<dReq[t].kind, dReq[t].key>>)
        => Persisted(SavedEntry(dReq[s])) /\ Persisted(SavedEntry(dReq[t]))

\* ---- yearly progress
RECURSIVE TotalOf(_, _)
TotalOf(months, f) ==
    IF months = {} THEN 0
    ELSE LET m == CHOOSE x \in months : TRUE
         IN f[m] + TotalOf(months \ {m}, f)

ProgressMonthsOf(year) == {m \in DOMAIN yProgress : YearOfMonth(m) = year}

StaffCounters(m, n) ==
    IF n \in DOMAIN yProgress[m].staff THEN yProgress[m].staff[n] ELSE ZeroCounters

\* C18: for every year of the result, signed, canceled and net, and each staff
\* member's signed, canceled and net, are the sums of those counters over the
\* months of that year in the monthly progress, with or without an annual goal.
C18_ProgressIsSumOfMonths ==
    yPhase = "done" =>
        /\ \A m \in DOMAIN yProgress : YearOfMonth(m) \in DOMAIN yOut
        /\ \A year \in DOMAIN yOut :
            LET ms == ProgressMonthsOf(year)
                p == yOut[year].progress
            IN /\ p.signed = TotalOf(ms, [m \in ms |-> yProgress[m].signed])
               /\ p.canceled = TotalOf(ms, [m \in ms |-> yProgress[m].canceled])
               /\ p.net = TotalOf(ms, [m \in ms |-> yProgress[m].net])
               /\ DOMAIN p.staff = UNION {DOMAIN yProgress[m].staff : m \in ms}
               /\ \A n \in DOMAIN p.staff :
                    /\ p.staff[n].signed = TotalOf(ms, [m \in ms |-> StaffCounters(m, n).signed])
                    /\ p.staff[n].canceled = TotalOf(ms, [m \in ms |-> StaffCounters(m, n).canceled])
                    /\ p.staff[n].net = TotalOf(ms, [m \in ms |-> StaffCounters(m, n).net])

\* A year with an explicit annual goal whose two months of progress are summed.
C18_Witness ==
    /\ yPhase = "done"
    /\ "2025" \in DOMAIN yGoals.d["annual"].d
    /\ ProgressMonthsOf("2025") = {"2025-04", "2025-05"}
    /\ yProgress["2025-04"].signed = 1 /\ yProgress["2025-05"].signed = 2
    /\ yOut["2025"].progress.signed = 3
    /\ yOut["2025"].progress.staff["A"].canceled = 1

ResolvedGoal(m) ==
    IF m \in DOMAIN yGoals.d["monthly"].d THEN yGoals.d["monthly"].d[m].d
    ELSE yGoals.d["default"].d

TargetOf(m, n) ==
    IF n \in DOMAIN ResolvedGoal(m)["staffTargets"].d
    THEN ResolvedGoal(m)["staffTargets"].d[n].i ELSE 0

Elements(l) == {l[i] : i \in DOMAIN l}

\* C19: the goal of a year with an explicit annual goal is exactly that goal;
\* the goal of a year without one is the sum of the resolved goals of the
\* year's months: storeTarget summed, staffTargets summed per name,
\* includeStaff unioned; the default goal never stands in as annual goal.
C19_YearGoalResolved ==
    yPhase = "done" =>
        \A year \in DOMAIN yOut :
            LET annual == yGoals.d["annual"].d
                ms == {m \in DOMAIN yProgress \cup DOMAIN yGoals.d["monthly"].d :
                          YearOfMonth(m) = year}
                goal == yOut[year].goal.d
            IN /\ yOut[year].months = ms
               /\ IF year \in DOMAIN annual THEN yOut[year].goal = annual[year]
                  ELSE /\ goal["storeTarget"].i =
                              TotalOf(ms, [m \in ms |-> ResolvedGoal(m)["storeTarget"].i])
                       /\ DOMAIN goal["staffTargets"].d =
                              UNION {DOMAIN ResolvedGoal(m)["staffTargets"].d : m \in ms}
                       /\ \A n \in DOMAIN goal["staffTargets"].d :
                              goal["staffTargets"].d[n].i = TotalOf(ms, [m \in ms |-> TargetOf(m, n)])
                       /\ Elements(goal["includeStaff"].l) =
                              UNION {Elements(ResolvedGoal(m)["includeStaff"].l) : m \in ms}

\* A year without annual goal: April has an explicit goal (1, {A:3, B:5}), May
\* resolves to the default (2, {B:2}, [B]); the year's goal is their sum.
C19_Witness ==
    /\ yPhase = "done"
    /\ "2025" \notin DOMAIN yGoals.d["annual"].d
    /\ DOMAIN yGoals.d["monthly"].d = {"2025-04"}
    /\ "2025-05" \in DOMAIN yProgress
    /\ yGoals.d["default"].d["storeTarget"] = PyInt(2)
    /\ yOut["2025"].goal =
          StoredGoal(3, [n \in {"A", "B"} |-> IF n = "A" THEN PyInt(3) ELSE PyInt(7)],
                     <<PyStr("B")>>)

\* ---- case numbers
\* The existing customers with a non-empty inquiry_date on or before the date.
DatedUpTo(customers, date) ==
    {i \in DOMAIN customers :
        customers[i].inquiry_date # NoDate /\ DateLeq(customers[i].inquiry_date, date)}

\* The four characters of a sequence number below 10000.
FourDigits(n) ==
    <<DigitChar(n \div 1000), DigitChar((n \div 100) % 10), DigitChar((n \div 10) % 10),
      DigitChar(n % 10)>>

YearSuffix(year) ==
    IF year < 2000 THEN Digits(year)
    ELSE <<DigitChar((year \div 10) % 10), DigitChar(year % 10)>>

\* C20: the case number is the prefix (S, B, R for sell, buy, investment, else
\* X), the year suffix (last two digits, all digits below 2000) and the
\* 4-digit zero-padded count, plus 1, of the existing customers with a
\* non-empty inquiry_date on or before the new date.
C20_CaseNumberFormat ==
    cPhase = "done" =>
        cOut = <<CASE cIn.category = "sell" -> "S"
                   [] cIn.category = "buy" -> "B"
                   [] cIn.category = "investment" -> "R"
                   [] OTHER -> "X">>
               \o YearSuffix(cIn.year)
               \o FourDigits(1 + Cardinality(DatedUpTo(cIn.existing_customers, cIn.inquiry_date)))

\* sell / 2025 / 2025-04-15 with one earlier customer loaded after a later
\* one and an undated one gives S250002.
C20_Witness ==
    /\ cPhase = "done"
    /\ cIn.category = "sell" /\ cIn.year = 2025 /\ cIn.inquiry_date = <<2025, 4, 15>>
    /\ cIn.existing_customers =
          <<Customer(<<2025, 5, 1>>), Customer(NoDate), Customer(<<2025, 4, 1>>)>>
    /\ cOut = <<"S", "2", "5", "0", "0", "0", "2">>

\* The examples of the contract: no existing customer gives S250001, one
\* earlier customer gives S250002.
C20_Examples ==
    (cPhase = "done" /\ cIn.category = "sell" /\ cIn.year = 2025
        /\ cIn.inquiry_date = <<2025, 4, 15>>) =>
        /\ cIn.existing_customers = << >> => cOut = <<"S", "2", "5", "0", "0", "0", "1">>
        /\ cIn.existing_customers = <<Customer(<<2025, 4, 1>>)>>
               => cOut = <<"S", "2", "5", "0", "0", "0", "2">>

\* ---- customers
Seqs(customers) == {case_seq(customers[i].case_number) : i \in 1..Len(customers)}

\* The case numbers are prefix + year suffix + 0001 .. n, each held by one row.
Numbered(category, year, customers) ==
    /\ \A i \in 1..Len(customers) :
          customers[i].case_number
              = CaseNumber(category, year, case_seq(customers[i].case_number))
    /\ Seqs(customers) = 1..Len(customers)

\* a is dated before b, an undated row coming after every dated one
DatedBefore(a, b) ==
    /\ a.inquiry_date # NoDate
    /\ b.inquiry_date = NoDate \/ ~DateLeq(b.inquiry_date, a.inquiry_date)

DateOrdered(customers) ==
    \A i, j \in 1..Len(customers) :
        DatedBefore(customers[i], customers[j])
            => case_seq(customers[i].case_number) < case_seq(customers[j].case_number)

\* C21: right after reassign_case_numbers the n rows of the partition hold the
\* case numbers prefix + year suffix + 0001 .. n, pairwise distinct and without
\* gaps, and a row with an earlier inquiry_date has the smaller sequence
\* number, the rows without an inquiry_date being numbered last.
C21_ReassignNumbersByDate ==
    kResp.op = "reassign" => Numbered(CustCategory, CustYear, kRecs) /\ DateOrdered(kRecs)

\* A reassignment of three rows created in another order than their dates,
\* one of them undated, that rewrote a case number.
C21_Witness ==
    /\ kResp.op = "reassign"
    /\ kResp.rewritten > 0
    /\ Len(kRecs) = 3
    /\ kRecs[1].inquiry_date = NoDate
    /\ DatedBefore(kRecs[3], kRecs[2])

\* C22: reassign_case_numbers is idempotent: run again on the rows its run
\* left, rows with equal dates included, it gives every row the case number the
\* row already has.
C22_ReassignIdempotent ==
    kResp.op = "reassign" => reassign_case_numbers(CustCategory, CustYear, kRecs) = kRecs

\* A reassignment that rewrote rows of a partition where two rows share their
\* inquiry_date; before it rows had been edited.
C22_Witness ==
    /\ kResp.op = "reassign"
    /\ kResp.rewritten > 1
    /\ kEdited
    /\ \E i, j \in 1..Len(kRecs) : i # j /\ kRecs[i].inquiry_date = kRecs[j].inquiry_date

\* The sequence number of every row is its rank in the sort order of
\* reassign_case_numbers.
InSortOrder(customers) ==
    \A i \in 1..Len(customers) : case_seq(customers[i].case_number) = Ranked(customers, i)

\* C26: when api_delete_customer has completed, the rows left in the partition
\* hold the case numbers 0001 .. n in the sort order of reassign_case_numbers;
\* api_create_customer rewrites the case number of no row it found.
C26_DeleteReassignsCreateDoesNot ==
    /\ kResp.op = "delete"
          => Numbered(CustCategory, CustYear, kRecs) /\ InSortOrder(kRecs)
    /\ kResp.op = "create" => kResp.rewritten = 0

\* A deletion that left two rows and rewrote the case number of one.
C26_Witness ==
    /\ kResp.op = "delete"
    /\ kResp.rewritten > 0
    /\ Len(kRecs) = 2

\* C28: after creations, deletions and reassignments of one partition no two
\* of its rows hold the same case number.
C28_CaseNumbersUnique ==
    ~kEdited =>
        \A i, j \in 1..Len(kRecs) : i # j => kRecs[i].case_number # kRecs[j].case_number

\* ---- monthly progress
\* The month a date text lies in; "" for a text that is no calendar date.
CalendarMonth(text) ==
    CASE text = "2025-04-10" -> "2025-04"
      [] text = "2025-05-20" -> "2025-05"
      [] text = "2025-06-05" -> "2025-06"
      [] OTHER -> ""

MonthTexts == {"2025-04", "2025-05", "2025-06"}
StaffNames == {"Tanaka", UNASSIGNED}

\* the staff member a contract counts for
CountedFor(contract) == IF contract.staff = "" THEN UNASSIGNED ELSE contract.staff

\* the contracts scanned with an event of month k, and those of staff member n
EventsIn(month_of(_), k) == {i \in 1..Len(mContracts) : month_of(mContracts[i]) = k}

EventsOf(month_of(_), k, n) == {i \in EventsIn(month_of, k) : CountedFor(mContracts[i]) = n}

\* the counters of the result, zero where it has no entry
OutMonth(k) ==
    IF k \in DOMAIN mOut THEN mOut[k]
    ELSE [signed |-> 0, canceled |-> 0, net |-> 0, staff |-> << >>]

OutStaff(k, n) == IF n \in DOMAIN OutMonth(k).staff THEN OutMonth(k).staff[n] ELSE ZeroCounters

\* The month of the signed event of a contract: that of mediation_date when the
\* field is present, else that of status_date; "" without a calendar date.
SignedEventMonth(contract) ==
    CalendarMonth(IF contract.mediation_date # "" THEN contract.mediation_date
                  ELSE contract.status_date)

\* C23: every contract counts as one signed event in the month of its
\* mediation_date when it has one, else in the month of its status_date, when
\* that date is a calendar date: signed of the month and of the month's entry
\* of the contract's staff member (the unassigned sentinel without one) count
\* those contracts, each adds 1 to net, and a contract without such a date
\* adds nothing.
C23_SignedRule ==
    mPhase = "done" =>
        /\ DOMAIN mOut \subseteq MonthTexts
        /\ \A k \in MonthTexts :
              /\ OutMonth(k).signed = Cardinality(EventsIn(SignedEventMonth, k))
              /\ OutMonth(k).net = OutMonth(k).signed - OutMonth(k).canceled
              /\ DOMAIN OutMonth(k).staff \subseteq StaffNames
              /\ \A n \in StaffNames :
                    /\ OutStaff(k, n).signed = Cardinality(EventsOf(SignedEventMonth, k, n))
                    /\ OutStaff(k, n).net = OutStaff(k, n).signed - OutStaff(k, n).canceled

\* The example of the rule: one contract of Tanaka with mediation_date
\* 2025-04-10 gives {"2025-04": signed 1, canceled 0, net 1, staff Tanaka alike}.
C23_Witness ==
    /\ mPhase = "done"
    /\ mContracts = <<[staff |-> "Tanaka", mediation_date |-> "2025-04-10",
                       status_date |-> "", cancel_reason |-> PyNone, deal_status |-> ""]>>
    /\ DOMAIN mOut = {"2025-04"}
    /\ mOut["2025-04"] = [signed |-> 1, canceled |-> 0, net |-> 1,
                          staff |-> [n \in {"Tanaka"} |-> Counters(1, 0)]]

\* The month of the canceled event of a contract: that of the cancel_date in
\* its cancel_reason when the date resolves, else that of status_date if the
\* deal status is canceled; "" otherwise.
CancelDateMonth(contract) ==
    IF contract.cancel_reason.t = "dict" /\ "cancel_date" \in DOMAIN contract.cancel_reason.d
    THEN CalendarMonth(contract.cancel_reason.d["cancel_date"].s)
    ELSE ""

CanceledEventMonth(contract) ==
    IF CancelDateMonth(contract) # "" THEN CancelDateMonth(contract)
    ELSE IF contract.deal_status = CANCELED THEN CalendarMonth(contract.status_date)
    ELSE ""

\* C24: every contract counts as at most one canceled event, in the month of
\* the cancel_date of its cancel_reason when that date resolves, else in the
\* month of its status_date exactly when its deal status is canceled: canceled
\* of the month and of the staff member's entry count those contracts, each
\* takes 1 from net, and a contract that is not canceled and has no cancel_date
\* adds no canceled event.
C24_CanceledRule ==
    mPhase = "done" =>
        \A k \in MonthTexts :
            /\ OutMonth(k).canceled = Cardinality(EventsIn(CanceledEventMonth, k))
            /\ OutMonth(k).net = OutMonth(k).signed - Cardinality(EventsIn(CanceledEventMonth, k))
            /\ \A n \in StaffNames :
                  /\ OutStaff(k, n).canceled = Cardinality(EventsOf(CanceledEventMonth, k, n))
                  /\ OutStaff(k, n).net
                        = OutStaff(k, n).signed - Cardinality(EventsOf(CanceledEventMonth, k, n))

\* Two contracts: one canceled through the cancel_date of its cancel_reason,
\* one with an unusable cancel_date canceled through its deal status; a
\* canceled event in each of the two months.
C24_Witness ==
    /\ mPhase = "done"
    /\ Len(mContracts) = 2
    /\ CancelDateMonth(mContracts[1]) = "2025-06"
    /\ mContracts[2].cancel_reason = PyDict([cancel_date |-> PyStr("2025-02-30")])
    /\ mContracts[2].deal_status = CANCELED
    /\ OutMonth("2025-06").canceled = 1
    /\ OutMonth("2025-05").canceled = 1

RECURSIVE SumOf(_, _)
SumOf(f, dom) ==
    IF dom = {} THEN 0
    ELSE LET x == CHOOSE y \in dom : TRUE IN f[x] + SumOf(f, dom \ {x})

\* C27: in every result of build_monthly_progress, net = signed - canceled for
\* every month and every staff entry of a month, signed and canceled of a month
\* are the sums over its staff entries, and signed and canceled summed over the
\* months are each at most the number of contracts scanned.
C27_CountersConsistent ==
    mPhase = "done" =>
        /\ \A k \in DOMAIN mOut :
              /\ mOut[k].net = mOut[k].signed - mOut[k].canceled
              /\ \A n \in DOMAIN mOut[k].staff :
                    mOut[k].staff[n].net = mOut[k].staff[n].signed - mOut[k].staff[n].canceled
              /\ mOut[k].signed
                    = SumOf([n \in DOMAIN mOut[k].staff |-> mOut[k].staff[n].signed],
                            DOMAIN mOut[k].staff)
              /\ mOut[k].canceled
                    = SumOf([n \in DOMAIN mOut[k].staff |-> mOut[k].staff[n].canceled],
                            DOMAIN mOut[k].staff)
        /\ SumOf([k \in DOMAIN mOut |-> mOut[k].signed], DOMAIN mOut) <= Len(mContracts)
        /\ SumOf([k \in DOMAIN mOut |-> mOut[k].canceled], DOMAIN mOut) <= Len(mContracts)

\* Two contracts of different staff members, both signed and both canceled,
\* with a month that holds events of both.
C27_Witness ==
    /\ mPhase = "done"
    /\ Len(mContracts) = 2
    /\ SumOf([k \in DOMAIN mOut |-> mOut[k].signed], DOMAIN mOut) = 2
    /\ SumOf([k \in DOMAIN mOut |-> mOut[k].canceled], DOMAIN mOut) = 2
    /\ \E k \in DOMAIN mOut : DOMAIN mOut[k].staff = StaffNames /\ mOut[k].net = 0

\* ---- goals document: migration
\* Session s executes the save_app_setting of the migration in this step.
MigrationWrite(s) == dPc[s] = "migrate" /\ dPc'[s] # "migrate"

\* {default: g, monthly: {current month: g}, annual: {}} for the stored goal
WrappedGoal(stored) ==
    PyDict([default |-> normalize_goal(stored),
            monthly |-> PyDict([k \in {CurrentMonth} |-> normalize_goal(stored)]),
            annual |-> PyDict(<< >>)])

\* The migration writes the wrapped stored goal.
MigrationWraps ==
    [][\A s \in Sessions : MigrationWrite(s) => dDoc' = WrappedGoal(dLocal[s])]_vars

\* C25: the migration of load_goals_data fires at most once: it replaces a
\* stored document without the monthly / annual / default shape by the wrapped
\* stored goal, and afterwards no load writes the document again, so that no
\* saved monthly or annual entry is replaced by a load.
C25_MigrationAtMostOnce ==
    [][\A s \in Sessions :
          MigrationWrite(s) =>
              /\ IsLegacy(LoadedData(dDoc))
              /\ dDoc' = WrappedGoal(LoadedData(dDoc))]_vars

\* A load that found the legacy row is about to write its migration over a
\* document that holds a goal saved for another month in the meantime.
C25_Witness ==
    \E s \in Sessions :
        /\ dPc[s] = "migrate"
        /\ dDoc # Absent
        /\ ~IsLegacy(LoadedData(dDoc))
        /\ "2025-04" \in DOMAIN dDoc.d["monthly"].d

\* ---- contracts and leases
\* Session s executes a statement of api_update_contract in this step.
UpdateStep(s) ==
    \/ tPc[s] = "idle" /\ tPc'[s] = "upd_save"
    \/ tPc[s] = "upd_save" /\ tPc'[s] = "idle"

\* C29: the lease is advisory: api_update_contract never reads or writes table
\* record_locks.  It answers 404 only for a contract that does not exist, and
\* otherwise saves the row for the updating user, whoever holds a lease on the
\* contract; the rows of record_locks are the same after each of its steps.
C29_UpdateIgnoresLease ==
    [][/\ \A s \in Sessions :
             /\ UpdateStep(s) => locks' = locks
             /\ tPc[s] = "upd_save" /\ tPc'[s] = "idle"
                   => [id |-> ContractId, updated_by |-> tUser[s]] \in tContracts'
       /\ tResp'.op = "update" /\ tResp'.status = 404
             => find_contract(tContracts', ContractId) = {} /\ locks' = locks]_vars

\* bob's update has just been saved while alice holds the live lease on the
\* contract.
C29_Witness ==
    /\ tResp = ConResp("update", 200, "bob")
    /\ [id |-> ContractId, updated_by |-> "bob"] \in tContracts
    /\ \E r \in Live(RowsFor(locks, ContractKey), now) : r.locked_by = "alice"

\* C30: no lease outlives its contract: when the contract does not exist and
\* no api_delete_contract is still before its release_lock, record_locks has
\* no row for the contract, however the lock and unlock calls of other
\* sessions were interleaved with the deletion.
C30_NoLeaseWithoutContract ==
    /\ find_contract(tContracts, ContractId) = {}
    /\ \A s \in Sessions : tPc[s] # "del_release"
    => RowsFor(locks, ContractKey) = {}

\* api_delete_contract has just answered, and a lock call of the other session
\* that found no lease before the release is about to insert its row.
C30_Witness ==
    /\ tResp = ConResp("delete", 200, "")
    /\ find_contract(tContracts, ContractId) = {}
    /\ RowsFor(locks, ContractKey) = {}
    /\ \E s \in Sessions : pc[s] = "acq_insert"

====
